---- MODULE Spec2Model ----
(***************************************************************************)
(* external-nfsexporter: the sidecar controller (VolumeNfsExportContent    *)
(* against the storage driver) and the common controller (VolumeNfsExport  *)
(* against VolumeNfsExportContent and the source PVC), as state machines   *)
(* over the objects of the API server.                                     *)
(*                                                                         *)
(* Conventions.  An object of the API server is a record; a nil pointer    *)
(* field is the string "nil" or the boolean FALSE of a "set" flag; an      *)
(* absent object is the record with exists = FALSE.  A resourceVersion is  *)
(* not a number here: a conditional write (Update, UpdateStatus) succeeds  *)
(* iff the object the writer holds equals the stored object, since every   *)
(* write that changes an object changes its version.  A JSON patch is      *)
(* unconditional.  The common controller reads a content through its       *)
(* contentStore, which the informer refreshes at any later moment.  The    *)
(* sidecar's content and the common controller's VolumeNfsExport are taken *)
(* from the API server at the start of a pass: an older copy there only    *)
(* delays the pass or makes its conditional writes fail.                   *)
(***************************************************************************)
EXTENDS Integers, Sequences, FiniteSets, TLC

\* ------------------------------------------------------------------------
\* Names

NfsExportNames == {"s1", "s2"}

UIDOf(s) == IF s = "s1" THEN "u1" ELSE "u2"

GetDynamicNfsExportContentNameForNfsExport(uid) == "snapcontent-" \o uid

PreProvisionedName == "pre1"

ContentNames ==
  {GetDynamicNfsExportContentNameForNfsExport(UIDOf(s)) : s \in NfsExportNames}
    \cup {PreProvisionedName}

NoError == <<>>

\* A VolumeNfsExportContent.  source: "volume" (spec.source.volumeHandle set,
\* dynamically provisioned) or "export" (spec.source.nfsexportHandle set,
\* pre-provisioned).  fin: the content-bound finalizer.  stSet: status is
\* non-nil; handle, ctime, size: the status field is non-nil; ready:
\* status.readyToUse ("nil", "true", "false"); error: status.error message.
AbsentContent ==
  [exists |-> FALSE, source |-> "volume", policy |-> "Delete",
   refName |-> "", refUID |-> "", class |-> FALSE,
   delTs |-> FALSE, fin |-> FALSE, annCreated |-> FALSE, annDeleted |-> FALSE,
   stSet |-> FALSE, handle |-> FALSE, ready |-> "nil", ctime |-> FALSE,
   size |-> FALSE, error |-> NoError]

\* A VolumeNfsExport.  source: "claim" (spec.source.persistentVolumeClaimName)
\* or "content" (spec.source.volumeNfsExportContentName).  bound:
\* status.boundVolumeNfsExportContentName or "" when nil.
AbsentNfsExport ==
  [exists |-> FALSE, uid |-> "", source |-> "claim", class |-> FALSE,
   delTs |-> FALSE, finSource |-> FALSE, finBound |-> FALSE,
   stSet |-> FALSE, bound |-> "", ready |-> "nil", ctime |-> FALSE,
   size |-> FALSE, error |-> NoError]

\* cached: the VolumeNfsExport the informer handed to the pass; stored: the
\* object of the API server; className: its spec.volumeNfsExportClassName
\* ("" when unset); driver: the CSI driver of the volume of its source PVC
\* ("" when the volume cannot be found or is no CSI volume); pc: "todo"
\* before checkAndUpdateNfsExportClass, "done" after; refused: the API server
\* refused the status write of the pass; err: the error
\* checkAndUpdateNfsExportClass returned ("" for nil, "NotFound" for an error
\* errors.IsNotFound accepts, "Other" for any other); updateFailed: the
\* Update of the class name returned an error; storeUpdated: what that Update
\* returned was handed to storeNfsExportUpdate; synced: syncNfsExportByKey
\* went on to updateNfsExport.
NoPass ==
  [cached |-> AbsentNfsExport, stored |-> AbsentNfsExport, className |-> "",
   driver |-> "", pc |-> "idle", refused |-> FALSE, err |-> "",
   updateFailed |-> FALSE, storeUpdated |-> FALSE, synced |-> FALSE]

\* The goroutines Run starts to serve one work queue.
Workers == {"w1", "w2"}

\* A work queue: queue, the keys to hand out, in order; dirty, the keys added
\* and not handed out yet; processing, the keys handed out and not done;
\* waiting, the keys the rate limiter will add.
NoQueue == [queue |-> <<>>, dirty |-> {}, processing |-> {}, waiting |-> {}]

\* The key each worker reconciles, "" between two items.
NoWorkers == [w \in Workers |-> ""]

\* An AdmissionReview of a VolumeNfsExport or VolumeNfsExportContent: the
\* operation, the two source fields of the old and of the new object (a:
\* persistentVolumeClaimName or volumeHandle, b: volumeNfsExportContentName
\* or nfsExportHandle; "nil" for a nil pointer), their sourceVolumeMode,
\* whether each passes the strict validation, the flag
\* preventVolumeModeConversion, and the response.
NoReview ==
  [kind |-> "", op |-> "", old |-> [a |-> "nil", b |-> "nil", mode |-> "nil",
                                    valid |-> TRUE],
   new |-> [a |-> "nil", b |-> "nil", mode |-> "nil", valid |-> TRUE],
   prevent |-> FALSE, response |-> "none"]

\* A CreateNfsExport call of the driver adapter: rsp, what the driver
\* answers (code "OK" or the gRPC code of the error, and the id, size and
\* readiness of the export); ret, what the adapter returned; pc, "idle",
\* "called" or "returned".
NoAdapterCall ==
  [rsp |-> [code |-> "OK", id |-> "", size |-> 0, ready |-> FALSE],
   ret |-> [driverName |-> "", nfsexportId |-> "", size |-> 0,
            readyToUse |-> FALSE, err |-> FALSE],
   pc |-> "idle"]

\* A step of a reconcile pass that reads fields the API server leaves
\* optional: fn, the function; uid and uuidLength, the arguments of
\* makeNfsExportName; pvc, a PVC of the lister; status, the status of the
\* content, and message, the error to record; outcome, "none" before the
\* step, then "ok", "error" or "panic", and for a check "true" or "false".
\* For the steps of the sidecar on a content: content, whether it has
\* spec.source.volumeHandle, spec.source.nfsexportHandle and
\* status.nfsexportHandle, its driver and the name of its class ("" for
\* none); classes, the classes of the lister; rpc, the call sent to the
\* driver ("" for none).  For the merge of an answer of the driver into the
\* status of a content: old, the status read from the API server ("nil"
\* for a field that is not set); readyToUse, what the driver answered, next
\* to handle "h2", creation time "t2" and size "z2"; new, the status after
\* the merge, and wrote, whether UpdateStatus was called.
NoStep ==
  [fn |-> "", uid |-> <<>>, uuidLength |-> -1,
   pvc |-> [hasDataSource |-> FALSE, name |-> "", kind |-> "",
            apiGroup |-> "nil", phase |-> "Bound"],
   status |-> [set |-> FALSE, hasError |-> FALSE, message |-> "nil"],
   message |-> "",
   content |-> [volumeHandle |-> FALSE, sourceHandle |-> FALSE,
                statusHandle |-> FALSE, driver |-> "", className |-> ""],
   classes |-> [k \in {"k1", "k2"} |-> [exists |-> FALSE, driver |-> ""]],
   old |-> [set |-> FALSE, handle |-> "nil", ready |-> "nil", ctime |-> "nil",
            size |-> "nil", error |-> "nil"],
   readyToUse |-> FALSE,
   new |-> [set |-> FALSE, handle |-> "nil", ready |-> "nil", ctime |-> "nil",
            size |-> "nil", error |-> "nil"],
   wrote |-> FALSE,
   rpc |-> "", outcome |-> "none"]

\* The store of a controller (by key, with the resource version of the
\* object it holds) and the last event handled: nothing stored, no event.
NoStore ==
  [store |-> [k \in {"s1", "s2"} |-> [found |-> FALSE, rv |-> <<>>]],
   key |-> "", rv |-> <<>>, old |-> [found |-> FALSE, rv |-> <<>>],
   updated |-> FALSE, err |-> FALSE, synced |-> FALSE]

\* The last update event of a content the informer delivered to the sidecar:
\* the key, being-created on the old and on the new object, the status of
\* the new object, and whether the handler called enqueueContentWork.
NoUpdate ==
  [key |-> "", oldAnn |-> FALSE, newAnn |-> FALSE, status |-> "nil",
   enqueued |-> FALSE]

\* The metrics manager and the VolumeNfsExport it times.  stored: the object
\* of the API server; cached: the informer copy; content: its content as the
\* controller's store holds it; cache: the operations of the VolumeNfsExport
\* that are in flight (the keys of opMgr.cache with its UID); observed: how
\* often the latency histogram observed each operation with status success.
NoMetrics ==
  [stored |-> AbsentNfsExport, cached |-> AbsentNfsExport,
   content |-> AbsentContent, cache |-> {},
   observed |-> [op \in {"CreateNfsExport", "CreateNfsExportAndReady"} |-> 0]]

VARIABLES
  class,          \* the VolumeNfsExportClass: deletionPolicy, parameters
  contents,       \* API server: VolumeNfsExportContent objects by name
  nfsexports,     \* API server: VolumeNfsExport objects by name
  pvc,            \* API server: the source PVC (its finalizer)
  backend,        \* storage system: state of the export of each content
  sc_pc,          \* sidecar: "idle" or "create" (CreateNfsExport in flight)
  sc_local,       \* sidecar: the content and caller of the call in flight
  cc_contents,    \* common controller: contentStore / informer cache
  rp_contents,    \* sidecar replicas: contentStore / informer cache of each
  rp_call,        \* sidecar replicas: the CreateNfsExport each has in flight
  wh_classes,     \* API server: VolumeNfsExportClass objects by name
  wh_lister,      \* admission webhook: informer cache of the classes
  er_log,         \* sidecar: the errors of CreateNfsExport and their verdicts
  dc_pass,        \* common controller: the VolumeNfsExport whose class is looked up
  wq,             \* controller: the work queue of the content keys
  wk,             \* controller: the key each worker reconciles
  restoring,      \* PVC lister: the VolumeNfsExports a pending PVC is restored from
  ar,             \* admission webhook: the AdmissionReview being answered
  nx,             \* driver adapter: the CreateNfsExport call and what it returned
  rc_step,        \* controllers: a step of a pass on optional fields, and its outcome
  oc,             \* controllers: a store by key and the last event handled
  ue,             \* sidecar: the last update event handled
  mm,             \* metrics manager: operations in flight and observed, per VolumeNfsExport
  unknown,        \* history: a CreateNfsExport ended without a known outcome
  evt             \* history: the driver call of the last step

vars == <<class, contents, nfsexports, pvc, backend, sc_pc, sc_local,
          cc_contents, rp_contents, rp_call, wh_classes, wh_lister, er_log,
          dc_pass,
          wq,
          wk,
          restoring,
          ar,
          nx,
          rc_step,
          oc,
          ue,
          mm,
          unknown, evt>>

\* The driver call of the last step: op is "CreateNfsExport",
\* "DeleteNfsExport" or "" (none), c the content it was made for; annFail:
\* the step tried to write being-created on c and the write failed.
NoEvt == [op |-> "", c |-> "", annFail |-> FALSE]

\* ------------------------------------------------------------------------
\* API server

\* An object with a deletion timestamp and no finalizer left is removed.
Finalize(obj) == IF obj.exists /\ obj.delTs /\ ~obj.fin THEN AbsentContent ELSE obj

\* ------------------------------------------------------------------------
\* Sidecar controller: helpers

\* gRPC status codes the driver may answer CreateNfsExport with.
DriverCodes == {"DeadlineExceeded", "Aborted", "Internal"}

\* The driver's side of a status code: after these the CreateNfsExport that
\* was answered may still be in progress on the storage system.
MayBeInProgress(code) ==
  code \in {"Canceled", "DeadlineExceeded", "Unavailable",
            "ResourceExhausted", "Aborted"}

\* isCSIFinalError as it would be if every gRPC status were final.
isCSIFinalErrorAlways(code) == code # "NotGRPC"

\* isCSIFinalError as it would be if an error without gRPC status were
\* classified by its code, which is then none of the listed ones.
isCSIFinalErrorByCodeOnly(code) ==
  code \notin {"Canceled", "DeadlineExceeded", "Unavailable",
               "ResourceExhausted", "Aborted"}

isCSIFinalError(code) ==
  IF code = "NotGRPC" THEN FALSE
  ELSE code \notin {"Canceled", "DeadlineExceeded", "Unavailable",
                    "ResourceExhausted", "Aborted"}

\* shouldDelete as it would be if the deletion timestamp were enough.
shouldDeleteOnTimestamp(content) == content.delTs

\* shouldDelete as it would be without the check of being-created.
shouldDeleteDespiteCreate(content) ==
  IF ~content.delTs THEN FALSE
  ELSE IF content.source = "export" /\ content.refUID = "" THEN TRUE
  ELSE content.annDeleted

shouldDelete(content) ==
  IF ~content.delTs THEN FALSE
  ELSE IF content.source = "export" /\ content.refUID = "" THEN TRUE
  ELSE IF content.annCreated THEN FALSE
  ELSE content.annDeleted

\* The helpers below take the content the caller holds, the stored object st
\* and whether the API server accepts the write (ok); they return the stored
\* object after the call, the content returned to the caller and the error.

\* setAnnVolumeNfsExportBeingCreated as it would be if a rejected patch were
\* not reported to the caller.
setAnnIgnoringPatchError(content, st, ok) ==
  IF content.annCreated
    THEN [st |-> st, content |-> content, err |-> FALSE, wrote |-> FALSE]
  ELSE IF ok /\ st.exists
    THEN LET n == [st EXCEPT !.annCreated = TRUE,
                             !.annDeleted = content.annDeleted]
         IN  [st |-> n, content |-> n, err |-> FALSE, wrote |-> TRUE]
  ELSE [st |-> st, content |-> content, err |-> FALSE, wrote |-> FALSE]

setAnnVolumeNfsExportBeingCreated(content, st, ok) ==
  IF content.annCreated
    THEN [st |-> st, content |-> content, err |-> FALSE, wrote |-> FALSE]
  ELSE IF ok /\ st.exists
    THEN LET n == [st EXCEPT !.annCreated = TRUE,
                             !.annDeleted = content.annDeleted]
         IN  [st |-> n, content |-> n, err |-> FALSE, wrote |-> TRUE]
  ELSE [st |-> st, content |-> content, err |-> TRUE, wrote |-> FALSE]

\* removeAnnVolumeNfsExportBeingCreated as it would be if it returned the
\* content as it is.
removeAnnLeavingIt(content, st, ok) ==
  [st |-> st, content |-> content, err |-> FALSE, wrote |-> FALSE]

removeAnnVolumeNfsExportBeingCreated(content, st, ok) ==
  IF ~content.annCreated
    THEN [st |-> st, content |-> content, err |-> FALSE, wrote |-> FALSE]
  ELSE IF ok /\ content = st
    THEN LET n == [st EXCEPT !.annCreated = FALSE]
         IN  [st |-> n, content |-> n, err |-> FALSE, wrote |-> TRUE]
  ELSE [st |-> st, content |-> content, err |-> TRUE, wrote |-> FALSE]

removeContentFinalizer(content, st, ok) ==
  IF ~content.fin
    THEN [st |-> st, content |-> content, err |-> FALSE, wrote |-> FALSE]
  ELSE IF ok /\ content = st
    THEN LET n == Finalize([st EXCEPT !.fin = FALSE])
         IN  [st |-> n, content |-> n, err |-> FALSE, wrote |-> TRUE]
  ELSE [st |-> st, content |-> content, err |-> TRUE, wrote |-> FALSE]

\* Reads the latest object, merges the driver's answer into status and
\* writes only when a field changed.
updateNfsExportContentStatus(content, st, readyToUse, ok) ==
  LET new == IF ~st.stSet
               THEN [st EXCEPT !.stSet = TRUE, !.handle = TRUE,
                               !.ready = readyToUse, !.ctime = TRUE,
                               !.size = TRUE]
               ELSE [st EXCEPT !.handle = TRUE,
                               !.ready = readyToUse,
                               !.error = IF st.ready # readyToUse
                                            /\ readyToUse = "true"
                                           THEN NoError ELSE st.error,
                               !.ctime = TRUE, !.size = TRUE]
  IN  IF ~st.exists
        THEN [st |-> st, content |-> content, err |-> TRUE, wrote |-> FALSE]
      ELSE IF new = st
        THEN [st |-> st, content |-> st, err |-> FALSE, wrote |-> FALSE]
      ELSE IF ok
        THEN [st |-> new, content |-> new, err |-> FALSE, wrote |-> TRUE]
      ELSE [st |-> st, content |-> content, err |-> TRUE, wrote |-> FALSE]

\* clearVolumeContentStatus as it would be if readyToUse were left as it is.
clearStatusKeepingReady(content, st, ok) ==
  LET new == IF st.stSet
               THEN [st EXCEPT !.handle = FALSE, !.ctime = FALSE,
                               !.size = FALSE]
               ELSE st
  IN  IF ok /\ st.exists
        THEN [st |-> new, content |-> new, err |-> FALSE, wrote |-> TRUE]
        ELSE [st |-> st, content |-> content, err |-> TRUE, wrote |-> FALSE]

clearVolumeContentStatus(content, st, ok) ==
  LET new == IF st.stSet
               THEN [st EXCEPT !.handle = FALSE, !.ready = "nil",
                               !.ctime = FALSE, !.size = FALSE]
               ELSE st
  IN  IF ok /\ st.exists
        THEN [st |-> new, content |-> new, err |-> FALSE, wrote |-> TRUE]
        ELSE [st |-> st, content |-> content, err |-> TRUE, wrote |-> FALSE]

\* updateContentErrorStatusWithEvent as it would be if it only emitted the
\* event.
updateContentErrorEventOnly(content, st, message) ==
  [st |-> st, content |-> content, err |-> FALSE, wrote |-> FALSE]

\* Records the error message on the stored object unless the content the
\* caller holds already shows the same message.  With a nil status the whole
\* status is replaced, else only error and readyToUse.
updateContentErrorStatusWithEvent(content, st, message) ==
  IF content.stSet /\ content.error = message
    THEN [st |-> st, content |-> content, err |-> FALSE, wrote |-> FALSE]
  ELSE IF st.exists
    THEN LET n == IF ~content.stSet
                    THEN [st EXCEPT !.stSet = TRUE, !.handle = FALSE,
                                    !.ready = "false", !.ctime = FALSE,
                                    !.size = FALSE, !.error = message]
                    ELSE [st EXCEPT !.stSet = TRUE, !.ready = "false",
                                    !.error = message]
         IN  [st |-> n, content |-> n, err |-> FALSE, wrote |-> TRUE]
  ELSE [st |-> st, content |-> content, err |-> TRUE, wrote |-> FALSE]

\* ------------------------------------------------------------------------
\* ------------------------------------------------------------------------
\* Sidecar controller: one action per branch of syncContent.  The parameter
\* fail names the call of the pass that fails, "none" when all succeed.

SidecarFrame ==
  UNCHANGED <<class, nfsexports, pvc, cc_contents, rp_contents, rp_call,
              wh_classes, wh_lister, er_log,
              dc_pass,
              wq,
              wk,
              restoring,
              ar,
              nx,
              rc_step,
              oc,
              ue,
              mm>>

\* The message createNfsExport and checkandUpdateContentStatus record in
\* status.error; its text, which names the cause, is not modelled.
SidecarError == <<"sidecar">>

\* syncContent -> deleteCSINfsExport: DeleteNfsExport on the driver, then the
\* status is cleared and syncContent runs again on the cleared content.
SidecarDelete(c, fail) ==
  LET st    == contents[c]
      cl    == clearVolumeContentStatus(st, st, fail # "status")
      rf    == IF shouldDelete(cl.content)
                 THEN removeContentFinalizer(cl.content, cl.st, fail # "fin")
                 ELSE [st |-> cl.st, content |-> cl.content, err |-> FALSE,
                       wrote |-> FALSE]
  IN  /\ sc_pc = "idle"
      /\ st.exists
      /\ shouldDelete(st)
      /\ st.policy = "Delete" /\ st.stSet /\ st.handle
      /\ contents' = [contents EXCEPT ![c] =
                        IF fail # "rpc" /\ ~cl.err THEN rf.st ELSE st]
      /\ backend' = [backend EXCEPT ![c] = IF fail # "rpc" THEN "none" ELSE @]
      /\ evt' = [NoEvt EXCEPT !.op = "DeleteNfsExport", !.c = c]
      /\ UNCHANGED <<sc_pc, sc_local, unknown>>
      /\ SidecarFrame

\* syncContent -> removeContentFinalizer
SidecarRemoveFinalizer(c, ok) ==
  LET st   == contents[c]
      rf   == removeContentFinalizer(st, st, ok)
  IN  /\ sc_pc = "idle"
      /\ st.exists
      /\ shouldDelete(st)
      /\ ~(st.policy = "Delete" /\ st.stSet /\ st.handle)
      /\ contents' = [contents EXCEPT ![c] = rf.st]
      /\ evt' = NoEvt
      /\ UNCHANGED <<backend, sc_pc, sc_local, unknown>>
      /\ SidecarFrame

\* The same branch as it would be if it returned at once.
SidecarKeepAnn(c, ok) ==
  /\ sc_pc = "idle"
  /\ contents[c].exists
  /\ evt' = NoEvt
  /\ UNCHANGED <<contents, backend, sc_pc, sc_local, unknown>>
  /\ SidecarFrame

\* The same branch as it would be without the shortcut for a content that
\* is ready: the driver is asked again.
SidecarAskAgain(c, ok) ==
  /\ sc_pc = "idle"
  /\ contents[c].exists
  /\ ~shouldDelete(contents[c])
  /\ contents[c].stSet /\ contents[c].ready = "true"
  /\ evt' = [NoEvt EXCEPT !.op = "CreateNfsExport", !.c = c]
  /\ UNCHANGED <<contents, backend, sc_pc, sc_local, unknown>>
  /\ SidecarFrame

\* syncContent, readyToUse already true: being-created is removed if it is
\* still there.
SidecarRemoveAnn(c, ok) ==
  LET st   == contents[c]
      ra   == removeAnnVolumeNfsExportBeingCreated(st, st, ok)
  IN  /\ sc_pc = "idle"
      /\ st.exists
      /\ ~shouldDelete(st)
      /\ st.stSet /\ st.ready = "true"
      /\ contents' = [contents EXCEPT ![c] = ra.st]
      /\ evt' = NoEvt
      /\ UNCHANGED <<backend, sc_pc, sc_local, unknown>>
      /\ SidecarFrame

\* syncContent -> checkandUpdateContentStatus of a pre-provisioned content:
\* GetNfsExportStatus on the driver, then the status is written.  The answer
\* readyToUse is not looked at when a call fails.
SidecarCheckStatus(c, fail, readyToUse) ==
  LET st   == contents[c]
      up   == updateNfsExportContentStatus(st, st, readyToUse,
                                           fail # "status")
      er   == updateContentErrorStatusWithEvent(st, st, SidecarError)
      res  == IF fail = "rpc" \/ up.err THEN er ELSE up
  IN  /\ sc_pc = "idle"
      /\ st.exists
      /\ ~shouldDelete(st)
      /\ st.source = "export"
      /\ ~(st.stSet /\ st.ready = "true")
      /\ fail # "none" => readyToUse = "false"
      /\ contents' = [contents EXCEPT ![c] = res.st]
      /\ evt' = NoEvt
      /\ UNCHANGED <<backend, sc_pc, sc_local, unknown>>
      /\ SidecarFrame

NoLocal == [c |-> "", content |-> AbsentContent]

\* The sidecar replicas that run without leader election, and a replica
\* with no call in flight.
Replicas == {"r1", "r2"}

NoCall == [pc |-> "idle", c |-> "", content |-> AbsentContent]

\* syncContent -> createNfsExport / checkandUpdateContentStatus of a
\* dynamically provisioned content, createNfsExportWrapper up to the call of
\* CreateNfsExport on the driver: being-created is patched in, the class
\* parameters are filtered, the handler checks the content; any failure ends
\* the pass with the error recorded in status.
SidecarCreateStart(c, annOk) ==
  LET st     == contents[c]
      an     == setAnnVolumeNfsExportBeingCreated(st, st, annOk)
      issued == ~an.err /\ class.paramsValid /\ an.content.refUID # ""
      er     == updateContentErrorStatusWithEvent(an.content, an.st,
                                                  SidecarError)
  IN  /\ sc_pc = "idle"
      /\ st.exists
      /\ ~shouldDelete(st)
      /\ st.source = "volume"
      /\ ~(st.stSet /\ st.ready = "true")
      /\ contents' = [contents EXCEPT ![c] = IF issued THEN an.st ELSE er.st]
      /\ sc_pc' = IF issued THEN "create" ELSE "idle"
      /\ sc_local' = IF issued THEN [c |-> c, content |-> an.content]
                     ELSE NoLocal
      /\ evt' = [NoEvt EXCEPT !.op = IF issued THEN "CreateNfsExport" ELSE "",
                              !.c = c, !.annFail = an.err]
      /\ UNCHANGED <<backend, unknown>>
      /\ SidecarFrame

\* createNfsExportWrapper after the driver answered with an error code.  On
\* an error the sidecar takes as final, being-created is removed (ok: the API
\* server accepts that).  The driver answers a code after which nothing is
\* in progress only when the export does not and will not exist; after the
\* other codes it may still be creating the export (later).
SidecarCreateFailed(code, later, ok) ==
  LET c      == sc_local.c
      st     == contents[c]
      held   == sc_local.content
      ra     == IF isCSIFinalError(code)
                  THEN removeAnnVolumeNfsExportBeingCreated(held, st, ok)
                  ELSE [st |-> st, content |-> held, err |-> FALSE,
                        wrote |-> FALSE]
      er     == updateContentErrorStatusWithEvent(ra.content, ra.st,
                                                  SidecarError)
  IN  /\ sc_pc = "create"
      /\ ~MayBeInProgress(code) => backend[c] = "none" /\ ~later
      /\ ~isCSIFinalError(code) => ok
      /\ contents' = [contents EXCEPT ![c] = er.st]
      /\ backend' = [backend EXCEPT ![c] =
                       IF @ = "none" /\ later THEN "pending" ELSE @]
      /\ unknown' = [unknown EXCEPT ![c] = MayBeInProgress(code)]
      /\ sc_pc' = "idle"
      /\ sc_local' = NoLocal
      /\ evt' = NoEvt
      /\ SidecarFrame

\* createNfsExportWrapper after the driver answered with success: the status
\* is written, then being-created is removed.
SidecarCreateSucceeded(readyToUse, fail) ==
  LET c      == sc_local.c
      st     == contents[c]
      held   == sc_local.content
      up     == updateNfsExportContentStatus(held, st, readyToUse,
                                             fail # "status")
      ra     == IF up.err
                  THEN [st |-> st, content |-> held, err |-> FALSE,
                        wrote |-> FALSE]
                  ELSE removeAnnVolumeNfsExportBeingCreated(up.content, up.st,
                                                            fail # "ann")
      er     == updateContentErrorStatusWithEvent(ra.content, ra.st,
                                                  SidecarError)
      res    == IF up.err \/ ra.err THEN er ELSE ra
  IN  /\ sc_pc = "create"
      /\ fail = "status" => readyToUse = "false"
      /\ contents' = [contents EXCEPT ![c] = res.st]
      /\ backend' = [backend EXCEPT ![c] = "exists"]
      /\ unknown' = [unknown EXCEPT ![c] = FALSE]
      /\ sc_pc' = "idle"
      /\ sc_local' = NoLocal
      /\ evt' = NoEvt
      /\ SidecarFrame

\* The sidecar process dies and starts again.  A call in flight is lost: the
\* driver may have received it, and its outcome is not known.
SidecarRestart(later) ==
  /\ sc_pc = "create"
  /\ sc_pc' = "idle"
  /\ sc_local' = NoLocal
  /\ unknown' = [unknown EXCEPT ![sc_local.c] = TRUE]
  /\ backend' = [backend EXCEPT ![sc_local.c] =
                   IF @ = "none" /\ later THEN "pending" ELSE @]
  /\ evt' = NoEvt
  /\ UNCHANGED contents
  /\ SidecarFrame

\* The storage system finishes, or gives up, a creation whose call ended
\* without an answer.
BackendSettles(c, created) ==
  /\ backend[c] = "pending"
  /\ backend' = [backend EXCEPT ![c] = IF created THEN "exists" ELSE "none"]
  /\ evt' = NoEvt
  /\ UNCHANGED <<class, contents, nfsexports, pvc, sc_pc, sc_local,
                 cc_contents, rp_contents, rp_call, wh_classes, wh_lister,
                 er_log, unknown,
                 dc_pass,
                 wq,
                 wk,
                 restoring,
                 ar,
                 nx,
                 rc_step,
                 oc,
                 ue,
                 mm>>

\* ------------------------------------------------------------------------
\* Common controller: helpers

\* A VolumeNfsExport with a deletion timestamp and no finalizer is removed.
FinalizeNfsExport(obj) ==
  IF obj.exists /\ obj.delTs /\ ~obj.finSource /\ ~obj.finBound
    THEN AbsentNfsExport ELSE obj

IsNfsExportReady(nfsexport) == nfsexport.stSet /\ nfsexport.ready = "true"

IsBoundVolumeNfsExportContentNameSet(nfsexport) ==
  nfsexport.stSet /\ nfsexport.bound # ""

IsNfsExportDeletionCandidate(nfsexport) ==
  nfsexport.delTs /\ (nfsexport.finSource \/ nfsexport.finBound)

NeedToAddNfsExportAsSourceFinalizer(nfsexport) ==
  ~nfsexport.delTs /\ ~nfsexport.finSource

NeedToAddNfsExportBoundFinalizer(nfsexport) ==
  /\ ~nfsexport.delTs
  /\ ~nfsexport.finBound
  /\ IsBoundVolumeNfsExportContentNameSet(nfsexport)

\* NeedToAddContentFinalizer as it would be if only the contents the
\* controller created itself were given the finalizer.
NeedToAddContentFinalizerDynamicOnly(content) ==
  content.source = "volume" /\ ~content.delTs /\ ~content.fin

NeedToAddContentFinalizer(content) == ~content.delTs /\ ~content.fin

\* name is the name of nfsexport; there is one namespace.
IsVolumeNfsExportRefSet(name, nfsexport, content) ==
  content.refName = name /\ content.refUID = nfsexport.uid

\* The same as it would be if the content of a dynamically provisioned
\* VolumeNfsExport were named after something else than its UID.
SourceContentNameShared(nfsexport) ==
  IF nfsexport.source = "content" THEN PreProvisionedName
  ELSE GetDynamicNfsExportContentNameForNfsExport(UIDOf("s2"))

\* The content a VolumeNfsExport is to be bound to: the one it names, or the
\* one named after its UID.
SourceContentName(nfsexport) ==
  IF nfsexport.source = "content" THEN PreProvisionedName
  ELSE GetDynamicNfsExportContentNameForNfsExport(nfsexport.uid)

\* isPVCBeingUsed as it would be if only the VolumeNfsExport being
\* reconciled were looked at.
isPVCBeingUsedByCurrent(name, skipCurrentNfsExport) ==
  /\ ~skipCurrentNfsExport
  /\ nfsexports[name].exists
  /\ nfsexports[name].source = "claim"
  /\ ~IsNfsExportReady(nfsexports[name])

\* Some VolumeNfsExport cut from the PVC is not ready yet.
isPVCBeingUsed(name, skipCurrentNfsExport) ==
  \E t \in NfsExportNames :
    /\ nfsexports[t].exists
    /\ ~(skipCurrentNfsExport /\ t = name)
    /\ nfsexports[t].source = "claim"
    /\ ~IsNfsExportReady(nfsexports[t])

\* checkandRemovePVCFinalizer as it would be if the PVC were left alone.
checkandKeepPVCFinalizer(pv, name, nfsexport, skipCurrentNfsExport, ok) ==
  [pv |-> pv, err |-> FALSE]

checkandRemovePVCFinalizer(pv, name, nfsexport, skipCurrentNfsExport, ok) ==
  IF nfsexport.source # "claim" THEN [pv |-> pv, err |-> FALSE]
  ELSE IF pv.fin /\ ~isPVCBeingUsed(name, skipCurrentNfsExport)
    THEN IF ok THEN [pv |-> [pv EXCEPT !.fin = FALSE], err |-> FALSE]
         ELSE [pv |-> pv, err |-> TRUE]
  ELSE [pv |-> pv, err |-> FALSE]

ensurePVCFinalizer(pv, nfsexport, ok) ==
  IF nfsexport.source # "claim" \/ pv.fin THEN [pv |-> pv, err |-> FALSE]
  ELSE IF ok THEN [pv |-> [pv EXCEPT !.fin = TRUE], err |-> FALSE]
  ELSE [pv |-> pv, err |-> TRUE]

\* The helpers below take the VolumeNfsExport the caller holds, the stored
\* object ns and whether the API server accepts the write; they return the
\* stored object after the call and the error.

addNfsExportFinalizer(nfsexport, ns, addSource, addBound, ok) ==
  LET n == [ns EXCEPT !.finSource = @ \/ addSource,
                      !.finBound = @ \/ addBound]
      accepted ==
        IF ~nfsexport.finSource /\ ~nfsexport.finBound
          THEN ns.exists /\ nfsexport = ns \* Update
          ELSE ns.exists /\ ~ns.delTs      \* patch
  IN  IF ok /\ accepted
        THEN [ns |-> n, err |-> FALSE, wrote |-> TRUE]
        ELSE [ns |-> ns, err |-> TRUE, wrote |-> FALSE]

updateNfsExportErrorStatusWithEvent(nfsexport, ns, setReadyToFalse, message) ==
  IF nfsexport.stSet /\ nfsexport.error = message
    THEN [ns |-> ns, err |-> FALSE, wrote |-> FALSE]
  ELSE IF ns.exists /\ nfsexport = ns
    THEN LET n == [ns EXCEPT !.stSet = TRUE, !.error = message,
                             !.ready = IF setReadyToFalse THEN "false" ELSE @]
         IN  [ns |-> n, err |-> FALSE, wrote |-> TRUE]
  ELSE [ns |-> ns, err |-> TRUE, wrote |-> FALSE]

\* Reads the latest VolumeNfsExport and merges the status of content (named
\* c) into its status.
updateNfsExportStatus(ns, c, content, ok) ==
  LET readyToUse == IF content.stSet /\ content.ready = "true"
                      THEN "true" ELSE "false"
      cerr == IF content.stSet THEN content.error ELSE NoError
      new  == IF ~ns.stSet
                THEN [ns EXCEPT !.stSet = TRUE, !.bound = c,
                                !.ready = readyToUse,
                                !.ctime = content.stSet /\ content.ctime,
                                !.size = content.stSet /\ content.size,
                                !.error = cerr]
                ELSE [ns EXCEPT !.bound = IF @ = "" THEN c ELSE @,
                                !.ready = readyToUse,
                                !.ctime = @ \/ (content.stSet /\ content.ctime),
                                !.size = @ \/ (content.stSet /\ content.size),
                                !.error = cerr]
      updated == new # ns \/ (ns.stSet /\ ns.error # NoError /\ cerr # NoError)
  IN  IF ~ns.exists
        THEN [ns |-> ns, err |-> TRUE, wrote |-> FALSE]
      ELSE IF ~updated
        THEN [ns |-> ns, err |-> FALSE, wrote |-> FALSE]
      ELSE IF ok
        THEN [ns |-> new, err |-> FALSE, wrote |-> TRUE]
      ELSE [ns |-> ns, err |-> TRUE, wrote |-> FALSE]

\* Patches the annotations the caller holds, plus being-deleted, over the
\* stored ones.  The annotation is put on the cached object before the
\* patch is sent.
setAnnVolumeNfsExportBeingDeleted(content, st, ok) ==
  IF content.annDeleted
    THEN [st |-> st, content |-> content, err |-> FALSE, wrote |-> FALSE]
  ELSE IF ok /\ st.exists
    THEN LET n == [st EXCEPT !.annDeleted = TRUE,
                             !.annCreated = content.annCreated]
         IN  [st |-> n, content |-> n, err |-> FALSE, wrote |-> TRUE]
  ELSE [st |-> st, content |-> [content EXCEPT !.annDeleted = TRUE],
        err |-> TRUE, wrote |-> FALSE]

addContentFinalizer(content, st, ok) ==
  IF ok /\ st.exists /\ (st.fin \/ ~st.delTs)
    THEN LET n == [st EXCEPT !.fin = TRUE]
         IN  [st |-> n, content |-> n, err |-> FALSE, wrote |-> TRUE]
    ELSE [st |-> st, content |-> content, err |-> TRUE, wrote |-> FALSE]

\* The content cached under the name the VolumeNfsExport asks for: "nil"
\* when there is none, "error" when it is of the other kind or refers to
\* another VolumeNfsExport, else "found".
\* getPreprovisionedContentFromStore as it would be without the check of
\* the reference of the content.
getPreprovisionedContentUnverified(name, nfsexport, content) ==
  IF ~content.exists THEN "nil"
  ELSE IF content.source # "export" THEN "error"
  ELSE "found"

getPreprovisionedContentFromStore(name, nfsexport, content) ==
  IF ~content.exists THEN "nil"
  ELSE IF content.source # "export" THEN "error"
  ELSE IF content.refName # name
          \/ (content.refUID # "" /\ content.refUID # nfsexport.uid)
    THEN "error"
  ELSE "found"

getDynamicallyProvisionedContentFromStore(name, nfsexport, content) ==
  IF ~content.exists THEN "nil"
  ELSE IF content.source # "volume" THEN "error"
  ELSE IF content.refName # name \/ content.refUID # nfsexport.uid
    THEN "error"
  ELSE "found"

\* The outcome of one pass over a VolumeNfsExport: the stored object (ns), the
\* stored and the cached content (cs, cc), the PVC, the error returned and
\* whether boundVolumeNfsExportContentName was written.
Res(ns, cs, cc, pv, err, bind) ==
  [ns |-> ns, cs |-> cs, cc |-> cc, pv |-> pv, err |-> err, bind |-> bind]

\* The messages the common controller records in status.error: their texts
\* are not modelled, only whether readyToUse is set to false with them.
HardError == <<"common", "not ready">>

SoftError == <<"common">>

\* The pass ends in an error that is recorded on the VolumeNfsExport the pass
\* started from (held).
Failed(held, ns, cs, cc, pv, setReadyToFalse, message) ==
  LET e == updateNfsExportErrorStatusWithEvent(held, ns, setReadyToFalse,
                                               message)
  IN  Res(e.ns, cs, cc, pv, TRUE, FALSE)

\* checkandBindNfsExportContent: the UID (and the class) of the
\* VolumeNfsExport is patched into the content unless both are set.
checkandBindNfsExportContent(nfsexport, content, st, ok) ==
  IF content.refUID # "" /\ content.refUID # nfsexport.uid
    THEN [st |-> st, content |-> content, err |-> TRUE, wrote |-> FALSE]
  ELSE IF content.refUID # "" /\ content.class
    THEN [st |-> st, content |-> content, err |-> FALSE, wrote |-> FALSE]
  ELSE IF ok /\ st.exists
    THEN LET n == [st EXCEPT !.refUID = nfsexport.uid,
                             !.class = @ \/ nfsexport.class]
         IN  [st |-> n, content |-> n, err |-> FALSE, wrote |-> TRUE]
  ELSE [st |-> st, content |-> content, err |-> TRUE, wrote |-> FALSE]

\* The content createNfsExportContent builds for a VolumeNfsExport.
NewContent(name, nfsexport) ==
  [AbsentContent EXCEPT !.exists = TRUE, !.source = "volume",
                        !.policy = class.policy, !.refName = name,
                        !.refUID = nfsexport.uid, !.class = TRUE]

\* syncUnreadyNfsExport, pre-provisioned.  held is the VolumeNfsExport the
\* pass started from, ns the stored one by now.
syncUnreadyPreprovisioned(name, held, ns, pv, ok) ==
  LET c    == SourceContentName(held)
      st   == contents[c]
      cv   == cc_contents[c]
      look == getPreprovisionedContentFromStore(name, held, cv)
      bd   == checkandBindNfsExportContent(held, cv, st, ok.bind)
      ccb  == IF bd.wrote THEN bd.content ELSE cv
      us   == updateNfsExportStatus(ns, c, bd.content, ok.status)
  IN  IF look = "error"
        THEN Failed(held, ns, st, cv, pv, TRUE, HardError)
      ELSE IF look = "nil"
        THEN Failed(held, ns, st, cv, pv, TRUE, HardError)
      ELSE IF bd.err
        THEN Failed(held, ns, st, cv, pv, TRUE, HardError)
      ELSE IF us.err
        THEN Failed(held, ns, bd.st, ccb, pv, FALSE, SoftError)
      ELSE Res(us.ns, bd.st, ccb, pv, FALSE, us.wrote)

\* syncUnreadyNfsExport, dynamic: bindandUpdateVolumeNfsExport on the cached
\* content, or createNfsExportContent and updateNfsExportStatus.
syncUnreadyDynamic(name, held, ns, pv, ok) ==
  LET c    == SourceContentName(held)
      st   == contents[c]
      cv   == cc_contents[c]
      look == getDynamicallyProvisionedContentFromStore(name, held, cv)
      ub   == updateNfsExportStatus(ns, c, cv, ok.status)
      en   == ensurePVCFinalizer(pv, held, ok.pvc)
      made == NewContent(name, held)
      cs   == IF st.exists THEN st ELSE made
      cc   == IF st.exists THEN cv ELSE made
      uc   == updateNfsExportStatus(ns, c, made, ok.status)
  IN  IF look = "error"
        THEN Failed(held, ns, st, cv, pv, TRUE, HardError)
      ELSE IF look = "found"
        THEN IF ub.err
               THEN Failed(ub.ns, ub.ns, st, cv, pv, TRUE, HardError)
               ELSE Res(ub.ns, st, cv, pv, FALSE, ub.wrote)
      ELSE IF en.err
        THEN Failed(held, ns, st, cv, pv, TRUE, HardError)
      ELSE IF ~st.exists /\ ~ok.bind
        THEN Failed(held, ns, st, cv, en.pv, TRUE, HardError)
      ELSE IF uc.err
        THEN Failed(held, ns, cs, cc, en.pv, FALSE, SoftError)
      ELSE Res(uc.ns, cs, cc, en.pv, FALSE, uc.wrote)

\* syncReadyNfsExport: the bound content must be there and refer back.
syncReadyNfsExport(name, held, ns, pv) ==
  LET bound == cc_contents[held.bound]
      c     == SourceContentName(held)
      st    == contents[c]
      cv    == cc_contents[c]
  IN  IF ~bound.exists
        THEN Failed(held, ns, st, cv, pv, TRUE, HardError)
      ELSE IF ~IsVolumeNfsExportRefSet(name, held, bound)
        THEN Failed(held, ns, st, cv, pv, TRUE, HardError)
      ELSE Res(ns, st, cv, pv, FALSE, FALSE)

\* processNfsExportWithDeletionTimestamp: the content found for the
\* VolumeNfsExport is deleted with it when its policy says so.
\* The same decision as it would be if no content were ever deleted.
deleteContentNever(found, content) == FALSE

\* The same decision as it would be if the policy were not looked at.
deleteContentAlways(found, content) == found

deleteContentWith(found, content) == found /\ content.policy = "Delete"

\* ------------------------------------------------------------------------
\* Common controller: actions

\* Which write of a pass the API server rejects, none when fail is "none":
\* the one on the PVC, the finalizers of the VolumeNfsExport, the patch of
\* the content, the status of the VolumeNfsExport (or the deletion of the
\* content).
Writes == {"none", "pvc", "fin", "bind", "status"}

Ok(fail) ==
  [pvc |-> fail # "pvc", fin |-> fail # "fin", bind |-> fail # "bind",
   status |-> fail # "status"]

CommonFrame ==
  UNCHANGED <<class, backend, sc_pc, sc_local, rp_contents, rp_call,
              wh_classes, wh_lister, er_log, unknown,
              dc_pass,
              wq,
              wk,
              restoring,
              ar,
              nx,
              rc_step,
              oc,
              ue,
              mm>>

\* syncNfsExport of a VolumeNfsExport without deletion timestamp: the outcome
\* of the pass, the error it returns to the worker (err) and whether
\* checkandRemovePVCFinalizer returned an error (pvcErr), which the pass logs.
syncNfsExport(name, fail) ==
  LET ok   == Ok(fail)
      held == nfsexports[name]
      c    == SourceContentName(held)
      cv   == cc_contents[c]
      pr   == checkandRemovePVCFinalizer(pvc, name, held, FALSE, ok.pvc)
      look == IF held.source = "content"
                THEN getPreprovisionedContentFromStore(name, held, cv)
                ELSE getDynamicallyProvisionedContentFromStore(name, held, cv)
      addS == NeedToAddNfsExportAsSourceFinalizer(held)
      addB == /\ look = "found"
              /\ NeedToAddNfsExportBoundFinalizer(held)
              /\ cv.policy = "Delete"
      fa   == IF addS \/ addB
                THEN addNfsExportFinalizer(held, held, addS, addB, ok.fin)
                ELSE [ns |-> held, err |-> FALSE, wrote |-> FALSE]
      r    == IF look = "error"
                THEN Failed(held, held, contents[c], cv, pr.pv, TRUE,
                            HardError)
              ELSE IF fa.err
                THEN Res(held, contents[c], cv, pr.pv, TRUE, FALSE)
              ELSE IF ~IsNfsExportReady(held)
                      \/ ~IsBoundVolumeNfsExportContentNameSet(held)
                THEN IF held.source = "content"
                       THEN syncUnreadyPreprovisioned(name, held, fa.ns,
                                                      pr.pv, ok)
                       ELSE syncUnreadyDynamic(name, held, fa.ns, pr.pv, ok)
              ELSE syncReadyNfsExport(name, held, fa.ns, pr.pv)
  IN  [ns |-> r.ns, cs |-> r.cs, cc |-> r.cc, pv |-> r.pv, err |-> r.err,
       pvcErr |-> pr.err]

CommonSyncNfsExport(name, fail) ==
  LET held == nfsexports[name]
      c    == SourceContentName(held)
      r    == syncNfsExport(name, fail)
  IN  /\ held.exists
      /\ ~held.delTs
      /\ nfsexports' = [nfsexports EXCEPT ![name] = r.ns]
      /\ contents' = [contents EXCEPT ![c] = r.cs]
      /\ cc_contents' = [cc_contents EXCEPT ![c] = r.cc]
      /\ pvc' = r.pv
      /\ evt' = NoEvt
      /\ CommonFrame

\* isVolumeBeingCreatedFromNfsExport as it would be if no PVC were looked at.
isVolumeBeingCreatedNever(name, pvcList) == FALSE

\* pvcList: the names that the pending PVCs of the lister have as their
\* data source of kind VolumeNfsExport.
isVolumeBeingCreatedFromNfsExport(name, pvcList) == name \in pvcList

\* syncNfsExport of a VolumeNfsExport with deletion timestamp:
\* processNfsExportWithDeletionTimestamp, then being-deleted is put on the
\* content, the content is deleted when its policy is Delete, and the
\* finalizers of the VolumeNfsExport are removed.
CommonDeleteNfsExport(name, fail) ==
  LET ok    == Ok(fail)
      held  == nfsexports[name]
      pr    == checkandRemovePVCFinalizer(pvc, name, held, FALSE, ok.pvc)
      c     == IF IsBoundVolumeNfsExportContentNameSet(held) THEN held.bound
               ELSE SourceContentName(held)
      named == IsBoundVolumeNfsExportContentNameSet(held)
                 \/ held.source = "claim"
      cv    == cc_contents[c]
      st    == contents[c]
      found == named /\ cv.exists /\ IsVolumeNfsExportRefSet(name, held, cv)
      deleteContent == deleteContentWith(found, cv)
      an    == IF found
                 THEN setAnnVolumeNfsExportBeingDeleted(cv, st, ok.bind)
                 ELSE [st |-> st, content |-> cv, err |-> FALSE,
                       wrote |-> FALSE]
      delOk == ~deleteContent \/ (ok.status /\ an.st.exists)
      cs    == IF deleteContent /\ delOk
                 THEN Finalize([an.st EXCEPT !.delTs = TRUE]) ELSE an.st
      pr2   == checkandRemovePVCFinalizer(pr.pv, name, held, TRUE, ok.pvc)
      nn    == FinalizeNfsExport(
                 [held EXCEPT !.finSource = FALSE,
                              !.finBound = IF deleteContent THEN @ ELSE FALSE])
      stage == IF ~IsNfsExportDeletionCandidate(held) THEN 0
               ELSE IF found /\ isVolumeBeingCreatedFromNfsExport(name, restoring)
                 THEN 0
               ELSE IF an.err THEN 1
               ELSE IF ~delOk THEN 2
               ELSE IF pr2.err THEN 3
               ELSE IF ~ok.fin THEN 4
               ELSE 5
  IN  /\ held.exists
      /\ held.delTs
      /\ contents' = [contents EXCEPT ![c] =
                        IF stage >= 3 THEN cs
                        ELSE IF stage = 2 THEN an.st ELSE st]
      /\ cc_contents' = [cc_contents EXCEPT ![c] =
                           IF stage >= 1 THEN an.content ELSE cv]
      /\ pvc' = IF stage >= 4 THEN pr2.pv ELSE pr.pv
      /\ nfsexports' = [nfsexports EXCEPT ![name] =
                          IF stage = 5 THEN nn ELSE held]
      /\ evt' = NoEvt
      /\ CommonFrame

\* syncContent as it would be if the UID of the VolumeNfsExport found under
\* the name were not compared with the one the content refers to.
syncContentOfAnyOwner(c, ok) ==
  LET cv    == cc_contents[c]
      st    == contents[c]
      owner == IF cv.refName \in NfsExportNames
                 THEN nfsexports[cv.refName] ELSE AbsentNfsExport
  IN  IF cv.refUID = ""
        THEN [st |-> st, content |-> cv, err |-> FALSE, wrote |-> FALSE]
      ELSE IF NeedToAddContentFinalizer(cv)
        THEN addContentFinalizer(cv, st, ok)
      ELSE IF owner.exists /\ IsNfsExportDeletionCandidate(owner)
        THEN setAnnVolumeNfsExportBeingDeleted(cv, st, ok)
      ELSE [st |-> st, content |-> cv, err |-> FALSE, wrote |-> FALSE]

\* syncContent of the common controller on the cached content c: the
\* finalizer is added to a bound content; being-deleted is put on the
\* content of a VolumeNfsExport that is being deleted.  Returns the stored
\* and the cached content after the pass.
syncContent(c, ok) ==
  LET cv    == cc_contents[c]
      st    == contents[c]
      owner == IF cv.refName \in NfsExportNames
                 THEN nfsexports[cv.refName] ELSE AbsentNfsExport
  IN  IF cv.refUID = ""
        THEN [st |-> st, content |-> cv, err |-> FALSE, wrote |-> FALSE]
      ELSE IF NeedToAddContentFinalizer(cv)
        THEN addContentFinalizer(cv, st, ok)
      ELSE IF /\ owner.exists
              /\ owner.uid = cv.refUID
              /\ IsNfsExportDeletionCandidate(owner)
        THEN setAnnVolumeNfsExportBeingDeleted(cv, st, ok)
      ELSE [st |-> st, content |-> cv, err |-> FALSE, wrote |-> FALSE]

\* A content key is taken off the queue and the cached content is synced.
CommonSyncContent(c, ok) ==
  LET res == syncContent(c, ok)
  IN  /\ cc_contents[c].exists
      /\ contents' = [contents EXCEPT ![c] = res.st]
      /\ cc_contents' = [cc_contents EXCEPT ![c] = res.content]
      /\ evt' = NoEvt
      /\ UNCHANGED <<nfsexports, pvc>>
      /\ CommonFrame

\* The content informer delivers the stored object to the common controller.
CommonInformerContent(c) ==
  /\ cc_contents[c] # contents[c]
  /\ cc_contents' = [cc_contents EXCEPT ![c] = contents[c]]
  /\ evt' = NoEvt
  /\ UNCHANGED <<contents, nfsexports, pvc>>
  /\ CommonFrame

\* ------------------------------------------------------------------------
\* Users

\* A user deletes a VolumeNfsExport.
UserDeleteNfsExport(name) ==
  /\ nfsexports[name].exists
  /\ ~nfsexports[name].delTs
  /\ nfsexports' = [nfsexports EXCEPT ![name] =
                      FinalizeNfsExport([@ EXCEPT !.delTs = TRUE])]
  /\ evt' = NoEvt
  /\ UNCHANGED <<contents, cc_contents, pvc>>
  /\ CommonFrame

\* An administrator deletes a pre-provisioned content that no
\* VolumeNfsExport is bound to.
AdminDeleteContent(c) ==
  /\ contents[c].exists
  /\ contents[c].source = "export"
  /\ contents[c].refUID = ""
  /\ ~contents[c].delTs
  /\ contents' = [contents EXCEPT ![c] = Finalize([@ EXCEPT !.delTs = TRUE])]
  /\ evt' = NoEvt
  /\ UNCHANGED <<nfsexports, cc_contents, pvc>>
  /\ CommonFrame

\* ------------------------------------------------------------------------
\* Admission webhook for VolumeNfsExportClass

ClassNames == {"k1", "k2"}

Drivers == {"d1", "d2"}

\* A VolumeNfsExportClass: its driver and whether it carries the annotation
\* is-default-class = "true".
AbsentClass == [exists |-> FALSE, driver |-> "", default |-> FALSE]

NoClasses == [k \in ClassNames |-> AbsentClass]

\* TRUE when the request is allowed.  lister: the classes the informer
\* cache of the webhook holds.
decideNfsExportClassV1(snapClass, oldSnapClass, lister) ==
  IF ~snapClass.default THEN TRUE
  ELSE IF oldSnapClass.default /\ oldSnapClass.driver = snapClass.driver
    THEN TRUE
  ELSE ~\E k \in ClassNames :
          /\ lister[k].exists
          /\ lister[k].default
          /\ lister[k].driver = snapClass.driver

\* The controllers are not part of the steps of the webhook.
ControllersFrame ==
  UNCHANGED <<class, contents, nfsexports, pvc, backend, sc_pc, sc_local,
              cc_contents, rp_contents, rp_call, unknown, evt>>

\* A CREATE of class k passes the webhook and is stored.  The old object of
\* a CREATE is empty.
AdmitCreate(k, driver, default) ==
  LET new == [exists |-> TRUE, driver |-> driver, default |-> default]
  IN  /\ ~wh_classes[k].exists
      /\ decideNfsExportClassV1(new, AbsentClass, wh_lister)
      /\ wh_classes' = [wh_classes EXCEPT ![k] = new]
      /\ UNCHANGED <<wh_lister, er_log, dc_pass,
                     wq,
                     wk,
                     restoring,
                     ar,
                     nx,
                     rc_step,
                     oc,
                     ue,
                     mm>>
      /\ ControllersFrame

\* An UPDATE of class k passes the webhook and is stored.
AdmitUpdate(k, driver, default) ==
  LET new == [exists |-> TRUE, driver |-> driver, default |-> default]
  IN  /\ wh_classes[k].exists
      /\ decideNfsExportClassV1(new, wh_classes[k], wh_lister)
      /\ wh_classes' = [wh_classes EXCEPT ![k] = new]
      /\ UNCHANGED <<wh_lister, er_log, dc_pass,
                     wq,
                     wk,
                     restoring,
                     ar,
                     nx,
                     rc_step,
                     oc,
                     ue,
                     mm>>
      /\ ControllersFrame

\* Requests other than CREATE and UPDATE are admitted.
AdmitDelete(k) ==
  /\ wh_classes[k].exists
  /\ wh_classes' = [wh_classes EXCEPT ![k] = AbsentClass]
  /\ UNCHANGED <<wh_lister, er_log, dc_pass,
                 wq,
                 wk,
                 restoring,
                 ar,
                 nx,
                 rc_step,
                 oc,
                 ue,
                 mm>>
  /\ ControllersFrame

\* The class informer delivers the stored object to the webhook.
ListerSync(k) ==
  /\ wh_lister[k] # wh_classes[k]
  /\ wh_lister' = [wh_lister EXCEPT ![k] = wh_classes[k]]
  /\ UNCHANGED <<wh_classes, er_log, dc_pass,
                 wq,
                 wk,
                 restoring,
                 ar,
                 nx,
                 rc_step,
                 oc,
                 ue,
                 mm>>
  /\ ControllersFrame

\* ------------------------------------------------------------------------
\* Classification of the errors of CreateNfsExport

\* The gRPC status codes, and "NotGRPC" for an error that carries no gRPC
\* status.
Errors ==
  {"NotGRPC", "Canceled", "Unknown", "InvalidArgument", "DeadlineExceeded",
   "NotFound", "AlreadyExists", "PermissionDenied", "ResourceExhausted",
   "FailedPrecondition", "Aborted", "OutOfRange", "Unimplemented",
   "Internal", "Unavailable", "DataLoss", "Unauthenticated"}

\* The calls of CreateNfsExport whose errors are classified.
Calls == {"first", "second"}

\* The sidecar classifies the error of a call.
Classify(call) ==
  /\ call \in DOMAIN er_log
  /\ er_log[call].verdict = "none"
  /\ er_log' = [er_log EXCEPT ![call].verdict =
                  IF isCSIFinalError(er_log[call].err) THEN "final"
                  ELSE "not final"]
  /\ UNCHANGED <<wh_classes, wh_lister, dc_pass,
                 wq,
                 wk,
                 restoring,
                 ar,
                 nx,
                 rc_step,
                 oc,
                 ue,
                 mm>>
  /\ ControllersFrame

\* ------------------------------------------------------------------------
\* Initial states and next-state relation

DynamicNfsExport(name) ==
  [AbsentNfsExport EXCEPT !.exists = TRUE, !.uid = UIDOf(name),
                          !.source = "claim", !.class = TRUE]

PreProvisionedNfsExport(name) ==
  [AbsentNfsExport EXCEPT !.exists = TRUE, !.uid = UIDOf(name),
                          !.source = "content"]

\* A pre-provisioned content as an administrator creates it: not yet bound,
\* with or without the finalizer.
PreProvisionedContent(policy, refName, fin) ==
  [AbsentContent EXCEPT !.exists = TRUE, !.source = "export",
                        !.policy = policy, !.refName = refName, !.fin = fin]

NoContents == [c \in ContentNames |-> AbsentContent]

NoNfsExports == [n \in NfsExportNames |-> AbsentNfsExport]

\* Either "s1" asks for an export of the PVC under some class, or an
\* administrator created content "pre1" for "s1" or for "s2", and "s1", if it
\* exists, asks for that content.
Init ==
  /\ \/ /\ class \in [policy : {"Delete", "Retain"}, paramsValid : BOOLEAN]
        /\ nfsexports = [NoNfsExports EXCEPT !["s1"] = DynamicNfsExport("s1")]
        /\ contents = NoContents
     \/ /\ class = [policy |-> "Delete", paramsValid |-> TRUE]
        /\ \E e \in BOOLEAN, p \in {"Delete", "Retain"},
              n \in NfsExportNames, f \in BOOLEAN :
             /\ n = "s2" => e
             /\ nfsexports =
                  [NoNfsExports EXCEPT !["s1"] =
                     IF e THEN PreProvisionedNfsExport("s1") ELSE @]
             /\ contents =
                  [NoContents EXCEPT ![PreProvisionedName] =
                     PreProvisionedContent(p, n, f)]
  /\ pvc = [fin |-> FALSE]
  /\ backend = [c \in ContentNames |->
                  IF contents[c].exists THEN "exists" ELSE "none"]
  /\ sc_pc = "idle"
  /\ sc_local = NoLocal
  /\ cc_contents = contents
  /\ rp_contents = [r \in Replicas |-> NoContents]
  /\ rp_call = [r \in Replicas |-> NoCall]
  /\ wh_classes = NoClasses
  /\ wh_lister = NoClasses
  /\ er_log = <<>>
  /\ unknown = [c \in ContentNames |-> FALSE]
  /\ evt = NoEvt
  /\ dc_pass = NoPass
  /\ wq = NoQueue
  /\ wk = NoWorkers
  /\ restoring = {}
  /\ ar = NoReview
  /\ nx = NoAdapterCall
  /\ rc_step = NoStep
  /\ oc = NoStore
  /\ ue = NoUpdate
  /\ mm = NoMetrics

Next ==
  \/ \E c \in ContentNames, fail \in {"none", "rpc", "status", "fin"} :
        SidecarDelete(c, fail)
  \/ \E c \in ContentNames, ok \in BOOLEAN : SidecarRemoveFinalizer(c, ok)
  \/ \E c \in ContentNames, ok \in BOOLEAN : SidecarRemoveAnn(c, ok)
  \/ \E c \in ContentNames, fail \in {"none", "rpc", "status"},
         r \in {"true", "false"} :
        SidecarCheckStatus(c, fail, r)
  \/ \E c \in ContentNames, annOk \in BOOLEAN : SidecarCreateStart(c, annOk)
  \/ \E code \in DriverCodes, later, ok \in BOOLEAN :
        SidecarCreateFailed(code, later, ok)
  \/ \E r \in {"true", "false"}, fail \in {"none", "status", "ann"} :
        SidecarCreateSucceeded(r, fail)
  \/ \E later \in BOOLEAN : SidecarRestart(later)
  \/ \E c \in ContentNames, created \in BOOLEAN : BackendSettles(c, created)
  \/ \E name \in NfsExportNames, fail \in Writes :
        CommonSyncNfsExport(name, fail)
  \/ \E name \in NfsExportNames, fail \in Writes :
        CommonDeleteNfsExport(name, fail)
  \/ \E c \in ContentNames, ok \in BOOLEAN : CommonSyncContent(c, ok)
  \/ \E c \in ContentNames : CommonInformerContent(c)
  \/ \E name \in NfsExportNames : UserDeleteNfsExport(name)
  \/ \E c \in ContentNames : AdminDeleteContent(c)

Spec == Init /\ [][Next]_vars

\* "s1" asks for an export of the PVC under a class with deletion policy
\* Delete.
InitLive ==
  /\ Init
  /\ nfsexports["s1"].exists /\ nfsexports["s1"].source = "claim"
  /\ class.policy = "Delete"

\* The deletion of a dynamically provisioned VolumeNfsExport under a class
\* with deletion policy Delete: "s1" and its content only.  The workers take
\* every key again and again (resync, and the rate limiter after an error),
\* the API server accepts a write that is tried again and again, the
\* informer delivers, and the driver answers a call that is made again and
\* again with success or with a final error in the end.
SpecLive ==
  /\ InitLive
  /\ [][\/ \E fail \in {"none", "rpc", "status", "fin"} :
            SidecarDelete("snapcontent-u1", fail)
        \/ \E ok \in BOOLEAN : SidecarRemoveFinalizer("snapcontent-u1", ok)
        \/ \E ok \in BOOLEAN : SidecarRemoveAnn("snapcontent-u1", ok)
        \/ \E annOk \in BOOLEAN : SidecarCreateStart("snapcontent-u1", annOk)
        \/ \E code \in DriverCodes, later, ok \in BOOLEAN :
              SidecarCreateFailed(code, later, ok)
        \/ \E r \in {"true", "false"}, fail \in {"none", "status", "ann"} :
              SidecarCreateSucceeded(r, fail)
        \/ \E created \in BOOLEAN : BackendSettles("snapcontent-u1", created)
        \/ \E fail \in Writes : CommonSyncNfsExport("s1", fail)
        \/ \E fail \in Writes : CommonDeleteNfsExport("s1", fail)
        \/ \E ok \in BOOLEAN : CommonSyncContent("snapcontent-u1", ok)
        \/ CommonInformerContent("snapcontent-u1")
        \/ UserDeleteNfsExport("s1")]_vars
  /\ SF_vars(SidecarDelete("snapcontent-u1", "none"))
  /\ SF_vars(SidecarRemoveFinalizer("snapcontent-u1", TRUE))
  /\ SF_vars(SidecarRemoveAnn("snapcontent-u1", TRUE))
  /\ SF_vars(SidecarCreateStart("snapcontent-u1", TRUE))
  /\ SF_vars(\/ \E r \in {"true", "false"} : SidecarCreateSucceeded(r, "none")
             \/ \E code \in {k \in DriverCodes : isCSIFinalError(k)} :
                  SidecarCreateFailed(code, FALSE, TRUE))
  /\ WF_vars(\E created \in BOOLEAN : BackendSettles("snapcontent-u1", created))
  /\ SF_vars(CommonSyncNfsExport("s1", "none"))
  /\ SF_vars(CommonDeleteNfsExport("s1", "none"))
  /\ SF_vars(CommonSyncContent("snapcontent-u1", TRUE))
  /\ WF_vars(CommonInformerContent("snapcontent-u1"))

\* Two VolumeNfsExports are cut from the one PVC, under a class with valid
\* parameters.  The driver answers every call with success and the API
\* server rejects only writes of the common controller on the PVC and on the
\* finalizers of a VolumeNfsExport.
InitPVC ==
  /\ class \in [policy : {"Delete", "Retain"}, paramsValid : {TRUE}]
  /\ nfsexports = [n \in NfsExportNames |-> DynamicNfsExport(n)]
  /\ contents = NoContents
  /\ pvc = [fin |-> FALSE]
  /\ backend = [c \in ContentNames |-> "none"]
  /\ sc_pc = "idle"
  /\ sc_local = NoLocal
  /\ cc_contents = contents
  /\ rp_contents = [r \in Replicas |-> NoContents]
  /\ rp_call = [r \in Replicas |-> NoCall]
  /\ wh_classes = NoClasses
  /\ wh_lister = NoClasses
  /\ er_log = <<>>
  /\ unknown = [c \in ContentNames |-> FALSE]
  /\ evt = NoEvt
  /\ dc_pass = NoPass
  /\ wq = NoQueue
  /\ wk = NoWorkers
  /\ restoring = {}
  /\ ar = NoReview
  /\ nx = NoAdapterCall
  /\ rc_step = NoStep
  /\ oc = NoStore
  /\ ue = NoUpdate
  /\ mm = NoMetrics

NextPVC ==
  \/ \E c \in ContentNames : SidecarCreateStart(c, TRUE)
  \/ \E r \in {"true", "false"} : SidecarCreateSucceeded(r, "none")
  \/ \E name \in NfsExportNames, fail \in {"none", "pvc", "fin"} :
        CommonSyncNfsExport(name, fail)
  \/ \E name \in NfsExportNames, fail \in {"none", "pvc", "fin"} :
        CommonDeleteNfsExport(name, fail)
  \/ \E c \in ContentNames : CommonInformerContent(c)
  \/ \E name \in NfsExportNames : UserDeleteNfsExport(name)

SpecPVC == InitPVC /\ [][NextPVC]_vars

\* ------------------------------------------------------------------------
\* Passes that a crash of the controller ends after some of their writes.
\* No error is recorded.  The controller that starts again fills its cache
\* from the API server.

\* createNfsExportWrapper ends after the status was written and before
\* being-created is removed.
SidecarCreateInterrupted(readyToUse) ==
  LET c    == sc_local.c
      up   == updateNfsExportContentStatus(sc_local.content, contents[c],
                                           readyToUse, TRUE)
  IN  /\ sc_pc = "create"
      /\ contents' = [contents EXCEPT ![c] = up.st]
      /\ backend' = [backend EXCEPT ![c] = "exists"]
      /\ unknown' = [unknown EXCEPT ![c] = FALSE]
      /\ sc_pc' = "idle"
      /\ sc_local' = NoLocal
      /\ evt' = NoEvt
      /\ SidecarFrame

\* syncNfsExport of a VolumeNfsExport without deletion timestamp ends after
\* the PVC check (n = 0), after the finalizers were added (1), after the PVC
\* got its finalizer or the content was patched (2), or after the content
\* was created (3).
CommonSyncNfsExportInterrupted(name, n) ==
  LET held == nfsexports[name]
      c    == SourceContentName(held)
      cv   == cc_contents[c]
      st   == contents[c]
      pr   == checkandRemovePVCFinalizer(pvc, name, held, FALSE, TRUE)
      look == IF held.source = "content"
                THEN getPreprovisionedContentFromStore(name, held, cv)
                ELSE getDynamicallyProvisionedContentFromStore(name, held, cv)
      addS == NeedToAddNfsExportAsSourceFinalizer(held)
      addB == /\ look = "found"
              /\ NeedToAddNfsExportBoundFinalizer(held)
              /\ cv.policy = "Delete"
      fa   == IF addS \/ addB
                THEN addNfsExportFinalizer(held, held, addS, addB, TRUE)
                ELSE [ns |-> held, err |-> FALSE, wrote |-> FALSE]
      en   == ensurePVCFinalizer(pr.pv, held, TRUE)
      bd   == checkandBindNfsExportContent(held, cv, st, TRUE)
      dyn  == held.source = "claim" /\ look = "nil"
      pre  == held.source = "content" /\ look = "found" /\ ~bd.err
      cs   == IF n >= 2 /\ pre THEN bd.st
              ELSE IF n = 3 /\ ~st.exists THEN NewContent(name, held)
              ELSE st
  IN  /\ held.exists
      /\ ~held.delTs
      /\ look # "error"
      /\ ~fa.err
      /\ n >= 2 => /\ ~IsNfsExportReady(held)
                      \/ ~IsBoundVolumeNfsExportContentNameSet(held)
                   /\ dyn \/ pre
      /\ n = 3 => dyn
      /\ nfsexports' = [nfsexports EXCEPT ![name] =
                          IF n >= 1 THEN fa.ns ELSE held]
      /\ pvc' = IF n >= 2 /\ dyn THEN en.pv ELSE pr.pv
      /\ contents' = [contents EXCEPT ![c] = cs]
      /\ cc_contents' = contents'
      /\ evt' = NoEvt
      /\ CommonFrame

\* syncNfsExport of a VolumeNfsExport with deletion timestamp ends after
\* the PVC check (n = 0), after being-deleted was put on the content (1),
\* after the content was deleted (2), or after the PVC lost its finalizer
\* and before the finalizers of the VolumeNfsExport are removed (3).
CommonDeleteNfsExportInterrupted(name, n) ==
  LET held  == nfsexports[name]
      pr    == checkandRemovePVCFinalizer(pvc, name, held, FALSE, TRUE)
      c     == IF IsBoundVolumeNfsExportContentNameSet(held) THEN held.bound
               ELSE SourceContentName(held)
      named == IsBoundVolumeNfsExportContentNameSet(held)
                 \/ held.source = "claim"
      cv    == cc_contents[c]
      st    == contents[c]
      found == named /\ cv.exists /\ IsVolumeNfsExportRefSet(name, held, cv)
      deleteContent == deleteContentWith(found, cv)
      an    == IF found
                 THEN setAnnVolumeNfsExportBeingDeleted(cv, st, TRUE)
                 ELSE [st |-> st, content |-> cv, err |-> FALSE,
                       wrote |-> FALSE]
      cs    == IF deleteContent
                 THEN Finalize([an.st EXCEPT !.delTs = TRUE]) ELSE an.st
      pr2   == checkandRemovePVCFinalizer(pr.pv, name, held, TRUE, TRUE)
  IN  /\ held.exists
      /\ held.delTs
      /\ n >= 1 => IsNfsExportDeletionCandidate(held) /\ ~an.err
      /\ n >= 1 => ~(found /\ isVolumeBeingCreatedFromNfsExport(name, restoring))
      /\ n >= 2 => an.st.exists
      /\ contents' = [contents EXCEPT ![c] =
                        IF n >= 2 THEN cs ELSE IF n = 1 THEN an.st ELSE st]
      /\ cc_contents' = contents'
      /\ pvc' = IF n = 3 THEN pr2.pv ELSE pr.pv
      /\ evt' = NoEvt
      /\ UNCHANGED nfsexports
      /\ CommonFrame

\* The VolumeNfsExport is ready, bound and has its finalizers; its content
\* is ready, has its finalizer and is not being created; the common
\* controller has seen that content and the PVC is released.
Steady(name) ==
  LET c == SourceContentName(nfsexports[name])
  IN  /\ sc_pc = "idle"
      /\ nfsexports[name].exists /\ ~nfsexports[name].delTs
      /\ IsNfsExportReady(nfsexports[name])
      /\ nfsexports[name].bound = c
      /\ nfsexports[name].finSource
      /\ nfsexports[name].finBound = (contents[c].policy = "Delete")
      /\ contents[c].exists /\ contents[c].fin /\ ~contents[c].delTs
      /\ contents[c].stSet /\ contents[c].ready = "true"
      /\ ~contents[c].annCreated
      /\ cc_contents[c] = contents[c]
      /\ ~pvc.fin

\* "s1" asks for an export of the PVC, or for the content "pre1" that an
\* administrator made for it with the policy of the class.  The driver answers every call with success
\* and the API server accepts every write; the user deletes the
\* VolumeNfsExport once it is steady.
InitResume ==
  /\ class \in [policy : {"Delete", "Retain"}, paramsValid : {TRUE}]
  /\ \/ /\ nfsexports = [NoNfsExports EXCEPT !["s1"] = DynamicNfsExport("s1")]
        /\ contents = NoContents
     \/ /\ nfsexports =
             [NoNfsExports EXCEPT !["s1"] = PreProvisionedNfsExport("s1")]
        /\ contents = [NoContents EXCEPT ![PreProvisionedName] =
                         PreProvisionedContent(class.policy, "s1", FALSE)]
  /\ pvc = [fin |-> FALSE]
  /\ backend = [c \in ContentNames |->
                  IF contents[c].exists THEN "exists" ELSE "none"]
  /\ sc_pc = "idle"
  /\ sc_local = NoLocal
  /\ cc_contents = contents
  /\ rp_contents = [r \in Replicas |-> NoContents]
  /\ rp_call = [r \in Replicas |-> NoCall]
  /\ wh_classes = NoClasses
  /\ wh_lister = NoClasses
  /\ er_log = <<>>
  /\ unknown = [c \in ContentNames |-> FALSE]
  /\ evt = NoEvt
  /\ dc_pass = NoPass
  /\ wq = NoQueue
  /\ wk = NoWorkers
  /\ restoring = {}
  /\ ar = NoReview
  /\ nx = NoAdapterCall
  /\ rc_step = NoStep
  /\ oc = NoStore
  /\ ue = NoUpdate
  /\ mm = NoMetrics

\* The passes when nothing fails.
NextComplete ==
  \/ \E c \in ContentNames : SidecarDelete(c, "none")
  \/ \E c \in ContentNames : SidecarRemoveFinalizer(c, TRUE)
  \/ \E c \in ContentNames : SidecarRemoveAnn(c, TRUE)
  \/ \E c \in ContentNames : SidecarCheckStatus(c, "none", "true")
  \/ \E c \in ContentNames : SidecarCreateStart(c, TRUE)
  \/ SidecarCreateSucceeded("true", "none")
  \/ \E name \in NfsExportNames : CommonSyncNfsExport(name, "none")
  \/ \E name \in NfsExportNames : CommonDeleteNfsExport(name, "none")
  \/ \E c \in ContentNames : CommonSyncContent(c, TRUE)
  \/ \E c \in ContentNames : CommonInformerContent(c)

NextResume ==
  \/ NextComplete
  \/ \E name \in NfsExportNames : Steady(name) /\ UserDeleteNfsExport(name)
  \/ \E later \in BOOLEAN : SidecarRestart(later)
  \/ \E c \in ContentNames : BackendSettles(c, TRUE)
  \/ SidecarCreateInterrupted("true")
  \/ \E c \in ContentNames : SidecarDelete(c, "status")
  \/ \E c \in ContentNames : SidecarDelete(c, "fin")
  \/ \E name \in NfsExportNames, n \in 0..3 :
        CommonSyncNfsExportInterrupted(name, n)
  \/ \E name \in NfsExportNames, n \in 0..3 :
        CommonDeleteNfsExportInterrupted(name, n)

SpecResume == InitResume /\ [][NextResume]_vars

\* ------------------------------------------------------------------------
\* Sidecar replicas without leader election.  Each replica runs syncContent
\* on the content its own informer cache holds, which may be older than the
\* stored object; the API server accepts every write that is not in
\* conflict and the driver answers every call with success.

ReplicaFrame ==
  UNCHANGED <<class, nfsexports, pvc, cc_contents, sc_pc, sc_local,
              wh_classes, wh_lister, er_log,
              dc_pass,
              wq,
              wk,
              restoring,
              ar,
              nx,
              rc_step,
              oc,
              ue,
              mm>>

NoWrite(content, st) ==
  [st |-> st, content |-> content, err |-> FALSE, wrote |-> FALSE]

\* The content informer delivers the stored object to replica r.
ReplicaInformerContent(r, c) ==
  /\ rp_contents[r][c] # contents[c]
  /\ rp_contents' = [rp_contents EXCEPT ![r][c] = contents[c]]
  /\ evt' = NoEvt
  /\ UNCHANGED <<contents, backend, rp_call, unknown>>
  /\ ReplicaFrame

\* syncContent -> deleteCSINfsExport on replica r: DeleteNfsExport on the
\* driver, then the status of the latest object is cleared and syncContent
\* runs again on the cleared content.
ReplicaDelete(r, c) ==
  LET held  == rp_contents[r][c]
      st    == contents[c]
      cl    == clearVolumeContentStatus(held, st, TRUE)
      rf    == IF shouldDelete(cl.content)
                 THEN removeContentFinalizer(cl.content, cl.st, TRUE)
                 ELSE NoWrite(cl.content, cl.st)
  IN  /\ rp_call[r].pc = "idle"
      /\ held.exists
      /\ shouldDelete(held)
      /\ held.policy = "Delete" /\ held.stSet /\ held.handle
      /\ contents' = [contents EXCEPT ![c] = IF cl.err THEN st ELSE rf.st]
      /\ rp_contents' = [rp_contents EXCEPT ![r][c] =
                           IF cl.err THEN held ELSE rf.content]
      /\ backend' = [backend EXCEPT ![c] = "none"]
      /\ evt' = [NoEvt EXCEPT !.op = "DeleteNfsExport", !.c = c]
      /\ UNCHANGED <<rp_call, unknown>>
      /\ ReplicaFrame

\* syncContent -> removeContentFinalizer on replica r.
ReplicaRemoveFinalizer(r, c) ==
  LET held == rp_contents[r][c]
      rf   == removeContentFinalizer(held, contents[c], TRUE)
  IN  /\ rp_call[r].pc = "idle"
      /\ held.exists
      /\ shouldDelete(held)
      /\ ~(held.policy = "Delete" /\ held.stSet /\ held.handle)
      /\ contents' = [contents EXCEPT ![c] = rf.st]
      /\ rp_contents' = [rp_contents EXCEPT ![r][c] = rf.content]
      /\ evt' = NoEvt
      /\ UNCHANGED <<backend, rp_call, unknown>>
      /\ ReplicaFrame

\* syncContent on replica r, readyToUse already true.
ReplicaRemoveAnn(r, c) ==
  LET held == rp_contents[r][c]
      ra   == removeAnnVolumeNfsExportBeingCreated(held, contents[c], TRUE)
  IN  /\ rp_call[r].pc = "idle"
      /\ held.exists
      /\ ~shouldDelete(held)
      /\ held.stSet /\ held.ready = "true"
      /\ contents' = [contents EXCEPT ![c] = ra.st]
      /\ rp_contents' = [rp_contents EXCEPT ![r][c] = ra.content]
      /\ evt' = NoEvt
      /\ UNCHANGED <<backend, rp_call, unknown>>
      /\ ReplicaFrame

\* syncContent -> createNfsExport / checkandUpdateContentStatus on replica
\* r, up to the call of CreateNfsExport on the driver.
ReplicaCreateStart(r, c) ==
  LET held   == rp_contents[r][c]
      st     == contents[c]
      an     == setAnnVolumeNfsExportBeingCreated(held, st, TRUE)
      issued == ~an.err /\ class.paramsValid /\ an.content.refUID # ""
      er     == updateContentErrorStatusWithEvent(an.content, an.st,
                                                  SidecarError)
  IN  /\ rp_call[r].pc = "idle"
      /\ held.exists
      /\ ~shouldDelete(held)
      /\ held.source = "volume"
      /\ ~(held.stSet /\ held.ready = "true")
      /\ contents' = [contents EXCEPT ![c] = IF issued THEN an.st ELSE er.st]
      /\ rp_contents' = [rp_contents EXCEPT ![r][c] =
                           IF issued THEN an.content ELSE er.content]
      /\ rp_call' = [rp_call EXCEPT ![r] =
                       IF issued
                         THEN [pc |-> "create", c |-> c, content |-> an.content]
                         ELSE NoCall]
      /\ evt' = [NoEvt EXCEPT !.op = IF issued THEN "CreateNfsExport" ELSE "",
                              !.c = c, !.annFail = an.err]
      /\ UNCHANGED <<backend, unknown>>
      /\ ReplicaFrame

\* createNfsExportWrapper on replica r after the driver answered with
\* success: the status is written, then being-created is removed.
ReplicaCreateSucceeded(r, readyToUse) ==
  LET c      == rp_call[r].c
      st     == contents[c]
      held   == rp_call[r].content
      up     == updateNfsExportContentStatus(held, st, readyToUse, TRUE)
      ra     == IF up.err
                  THEN NoWrite(held, st)
                  ELSE removeAnnVolumeNfsExportBeingCreated(up.content, up.st,
                                                            TRUE)
      er     == updateContentErrorStatusWithEvent(ra.content, ra.st,
                                                  SidecarError)
      res    == IF up.err \/ ra.err THEN er ELSE ra
  IN  /\ rp_call[r].pc = "create"
      /\ contents' = [contents EXCEPT ![c] = res.st]
      /\ rp_contents' = [rp_contents EXCEPT ![r][c] = res.content]
      /\ rp_call' = [rp_call EXCEPT ![r] = NoCall]
      /\ backend' = [backend EXCEPT ![c] = "exists"]
      /\ unknown' = [unknown EXCEPT ![c] = FALSE]
      /\ evt' = NoEvt
      /\ ReplicaFrame

\* "s1" asks for an export of the PVC under a class with policy Delete and
\* valid parameters.
InitReplicas ==
  /\ class = [policy |-> "Delete", paramsValid |-> TRUE]
  /\ nfsexports = [NoNfsExports EXCEPT !["s1"] = DynamicNfsExport("s1")]
  /\ contents = NoContents
  /\ pvc = [fin |-> FALSE]
  /\ backend = [c \in ContentNames |-> "none"]
  /\ sc_pc = "idle"
  /\ sc_local = NoLocal
  /\ cc_contents = contents
  /\ rp_contents = [r \in Replicas |-> NoContents]
  /\ rp_call = [r \in Replicas |-> NoCall]
  /\ wh_classes = NoClasses
  /\ wh_lister = NoClasses
  /\ er_log = <<>>
  /\ unknown = [c \in ContentNames |-> FALSE]
  /\ evt = NoEvt
  /\ dc_pass = NoPass
  /\ wq = NoQueue
  /\ wk = NoWorkers
  /\ restoring = {}
  /\ ar = NoReview
  /\ nx = NoAdapterCall
  /\ rc_step = NoStep
  /\ oc = NoStore
  /\ ue = NoUpdate
  /\ mm = NoMetrics

NextReplicas ==
  \/ \E r \in Replicas, c \in ContentNames : ReplicaInformerContent(r, c)
  \/ \E r \in Replicas, c \in ContentNames : ReplicaDelete(r, c)
  \/ \E r \in Replicas, c \in ContentNames : ReplicaRemoveFinalizer(r, c)
  \/ \E r \in Replicas, c \in ContentNames : ReplicaRemoveAnn(r, c)
  \/ \E r \in Replicas, c \in ContentNames : ReplicaCreateStart(r, c)
  \/ \E r \in Replicas, ready \in {"true", "false"} :
        ReplicaCreateSucceeded(r, ready)
  \/ \E name \in NfsExportNames : CommonSyncNfsExport(name, "none")
  \/ \E name \in NfsExportNames : CommonDeleteNfsExport(name, "none")
  \/ \E c \in ContentNames : CommonSyncContent(c, TRUE)
  \/ \E c \in ContentNames : CommonInformerContent(c)
  \/ \E name \in NfsExportNames : UserDeleteNfsExport(name)

SpecReplicas == InitReplicas /\ [][NextReplicas]_vars

\* ------------------------------------------------------------------------
\* The webhook and the classification on their own: no VolumeNfsExport, no
\* content, no class object.

ControllersInit ==
  /\ class = [policy |-> "Delete", paramsValid |-> TRUE]
  /\ nfsexports = NoNfsExports
  /\ contents = NoContents
  /\ pvc = [fin |-> FALSE]
  /\ backend = [c \in ContentNames |-> "none"]
  /\ sc_pc = "idle"
  /\ sc_local = NoLocal
  /\ cc_contents = contents
  /\ rp_contents = [r \in Replicas |-> NoContents]
  /\ rp_call = [r \in Replicas |-> NoCall]
  /\ unknown = [c \in ContentNames |-> FALSE]
  /\ evt = NoEvt

\* No class is stored.
InitAdmission ==
  /\ ControllersInit
  /\ wh_classes = NoClasses
  /\ wh_lister = NoClasses
  /\ er_log = <<>>
  /\ dc_pass = NoPass
  /\ wq = NoQueue
  /\ wk = NoWorkers
  /\ restoring = {}
  /\ ar = NoReview
  /\ nx = NoAdapterCall
  /\ rc_step = NoStep
  /\ oc = NoStore
  /\ ue = NoUpdate
  /\ mm = NoMetrics

NextAdmission ==
  \/ \E k \in ClassNames, d \in Drivers, default \in BOOLEAN :
        AdmitCreate(k, d, default)
  \/ \E k \in ClassNames, d \in Drivers, default \in BOOLEAN :
        AdmitUpdate(k, d, default)
  \/ \E k \in ClassNames : AdmitDelete(k)
  \/ \E k \in ClassNames : ListerSync(k)

SpecAdmission == InitAdmission /\ [][NextAdmission]_vars

\* Each call ended with some error, which is not classified yet.
InitClassify ==
  /\ ControllersInit
  /\ wh_classes = NoClasses
  /\ wh_lister = NoClasses
  /\ er_log \in [Calls -> [err : Errors, verdict : {"none"}]]
  /\ dc_pass = NoPass
  /\ wq = NoQueue
  /\ wk = NoWorkers
  /\ restoring = {}
  /\ ar = NoReview
  /\ nx = NoAdapterCall
  /\ rc_step = NoStep
  /\ oc = NoStore
  /\ ue = NoUpdate
  /\ mm = NoMetrics

NextClassify == \E call \in Calls : Classify(call)

SpecClassify == InitClassify /\ [][NextClassify]_vars

\* ------------------------------------------------------------------------
\* Common controller: the class of a VolumeNfsExport

\* The default classes of the driver among the listed ones.
defaultClasses(list, pvDriver) ==
  {k \in ClassNames :
     list[k].exists /\ list[k].default /\ list[k].driver = pvDriver}

\* SetDefaultNfsExportClass as it would be if it took some default class when
\* several are found.
SetDefaultNfsExportClassAny(p, list) ==
  LET found == defaultClasses(list, p.driver)
  IN  IF p.cached.source = "content" THEN [p |-> p, err |-> FALSE]
      ELSE IF p.driver = "" \/ found = {} THEN [p |-> p, err |-> TRUE]
      ELSE IF p.cached = p.stored
        THEN [p |-> [p EXCEPT !.className = CHOOSE k \in found : TRUE,
                              !.cached.class = TRUE, !.stored.class = TRUE,
                              !.storeUpdated = TRUE],
              err |-> FALSE]
      ELSE [p |-> [p EXCEPT !.updateFailed = TRUE, !.storeUpdated = TRUE],
            err |-> FALSE]

\* Returns the pass after the call and whether an error is returned.  A
\* refused Update of the class name is logged only: what Update returned is
\* handed to storeNfsExportUpdate all the same and no error is returned.
SetDefaultNfsExportClass(p, list) ==
  LET found == defaultClasses(list, p.driver)
  IN  IF p.cached.source = "content" THEN [p |-> p, err |-> FALSE]
      ELSE IF p.driver = "" THEN [p |-> p, err |-> TRUE]
      ELSE IF found = {} THEN [p |-> p, err |-> TRUE]
      ELSE IF Cardinality(found) > 1 THEN [p |-> p, err |-> TRUE]
      ELSE IF p.cached = p.stored
        THEN [p |-> [p EXCEPT !.className = CHOOSE k \in found : TRUE,
                              !.cached.class = TRUE, !.stored.class = TRUE,
                              !.storeUpdated = TRUE],
              err |-> FALSE]
      ELSE [p |-> [p EXCEPT !.updateFailed = TRUE, !.storeUpdated = TRUE],
            err |-> FALSE]

\* The pass with the error message written to the status of the stored
\* object, when the API server accepts the write.
recordClassError(p, message) ==
  LET r == updateNfsExportErrorStatusWithEvent(p.cached, p.stored, FALSE,
                                               message)
  IN  [p EXCEPT !.stored = r.ns, !.refused = r.err]

\* The lister's error for a named class that is missing is a NotFound error;
\* the errors of SetDefaultNfsExportClass are made with fmt.Errorf.
checkAndUpdateNfsExportClass(p, list) ==
  IF p.className # ""
    THEN IF list[p.className].exists THEN p
         ELSE [recordClassError(p, "GetNfsExportClassFailed")
                 EXCEPT !.err = "NotFound"]
  ELSE LET r == SetDefaultNfsExportClass(p, list)
       IN  IF r.err
             THEN [recordClassError(r.p, "SetDefaultNfsExportClassFailed")
                     EXCEPT !.err = "Other"]
           ELSE r.p

\* syncNfsExportByKey up to the call of updateNfsExport: it is called when
\* the class was resolved, or when the VolumeNfsExport has a deletion
\* timestamp and the error is a NotFound error.
CheckClass ==
  /\ dc_pass.pc = "todo"
  /\ dc_pass' =
       LET r == checkAndUpdateNfsExportClass(dc_pass, wh_classes)
       IN  [r EXCEPT !.pc = "done",
                     !.synced = \/ r.err = ""
                                \/ r.cached.delTs /\ r.err = "NotFound"]
  /\ UNCHANGED <<wh_classes, wh_lister, er_log,
                 wq,
                 wk,
                 restoring,
                 ar,
                 nx,
                 rc_step,
                 oc,
                 ue,
                 mm>>
  /\ ControllersFrame

\* Any classes are stored; the VolumeNfsExport names a class or none, has a
\* PVC or a content as its source, is being deleted (held by a finalizer) or
\* not, and the informer copy of it is current or lacks the latest status.
InitDefaultClass ==
  /\ ControllersInit
  /\ wh_classes \in [ClassNames ->
                       {AbsentClass} \cup
                       [exists : {TRUE}, driver : Drivers, default : BOOLEAN]]
  /\ wh_lister = wh_classes
  /\ er_log = <<>>
  /\ \E n \in {DynamicNfsExport("s1"), PreProvisionedNfsExport("s1")},
        name \in {""} \cup ClassNames, d \in {""} \cup Drivers,
        stale \in BOOLEAN, deleting \in BOOLEAN :
        dc_pass = [NoPass EXCEPT
                     !.cached = [n EXCEPT !.class = name # "",
                                          !.delTs = deleting,
                                          !.finBound = deleting],
                     !.stored = [n EXCEPT !.class = name # "",
                                          !.delTs = deleting,
                                          !.finBound = deleting,
                                          !.stSet = stale,
                                          !.ready = IF stale THEN "false"
                                                    ELSE @],
                     !.className = name, !.driver = d, !.pc = "todo"]
  /\ wq = NoQueue
  /\ wk = NoWorkers
  /\ restoring = {}
  /\ ar = NoReview
  /\ nx = NoAdapterCall
  /\ rc_step = NoStep
  /\ oc = NoStore
  /\ ue = NoUpdate
  /\ mm = NoMetrics

SpecDefaultClass == InitDefaultClass /\ [][CheckClass]_vars

\* ------------------------------------------------------------------------
\* Work queue and workers

\* Add: a key already dirty is dropped; a key being processed is kept dirty
\* and not queued.
QueueAdd(q, k) ==
  IF k \in q.dirty THEN q
  ELSE IF k \in q.processing THEN [q EXCEPT !.dirty = @ \cup {k}]
  ELSE [q EXCEPT !.dirty = @ \cup {k}, !.queue = Append(@, k)]

\* Get: the head of the queue is handed out.
QueueGet(q) ==
  [q EXCEPT !.queue = Tail(@), !.processing = @ \cup {Head(q.queue)},
            !.dirty = @ \ {Head(q.queue)}]

\* Done: a key added while it was processed is queued now.
QueueDone(q, k) ==
  IF k \in q.dirty
    THEN [q EXCEPT !.processing = @ \ {k}, !.queue = Append(@, k)]
    ELSE [q EXCEPT !.processing = @ \ {k}]

\* AddRateLimited: the key is added after the delay of the rate limiter.
QueueAddRateLimited(q, k) == [q EXCEPT !.waiting = @ \cup {k}]

WorkFrame ==
  /\ UNCHANGED <<wh_classes, wh_lister, er_log, dc_pass,
                 restoring,
                 ar,
                 nx,
                 rc_step,
                 oc,
                 ue,
                 mm>>
  /\ ControllersFrame

\* An informer handler, or a reconciliation of another object, adds the key.
EnqueueContentWork(k) ==
  /\ wq' = QueueAdd(wq, k)
  /\ UNCHANGED wk
  /\ WorkFrame

\* The delay of a key added with AddRateLimited is over.
DelayOver(k) ==
  /\ k \in wq.waiting
  /\ wq' = QueueAdd([wq EXCEPT !.waiting = @ \ {k}], k)
  /\ UNCHANGED wk
  /\ WorkFrame

\* processNextItem as it would be if it called Done before the sync.
GetAndDone(w) ==
  /\ wk[w] = ""
  /\ wq.queue # <<>>
  /\ wq' = QueueDone(QueueGet(wq), Head(wq.queue))
  /\ wk' = [wk EXCEPT ![w] = Head(wq.queue)]
  /\ WorkFrame

\* processNextItem up to the call of syncContentByKey: Get returned a key.
GetItem(w) ==
  /\ wk[w] = ""
  /\ wq.queue # <<>>
  /\ wq' = QueueGet(wq)
  /\ wk' = [wk EXCEPT ![w] = Head(wq.queue)]
  /\ WorkFrame

\* processNextItem from the return of syncContentByKey: the key is added
\* again with AddRateLimited after an error; Done is deferred.
ItemSynced(w, err) ==
  /\ wk[w] # ""
  /\ wq' = QueueDone(IF err THEN QueueAddRateLimited(wq, wk[w]) ELSE wq, wk[w])
  /\ wk' = [wk EXCEPT ![w] = ""]
  /\ WorkFrame

InitWork ==
  /\ ControllersInit
  /\ wh_classes = NoClasses
  /\ wh_lister = NoClasses
  /\ er_log = <<>>
  /\ dc_pass = NoPass
  /\ wq = NoQueue
  /\ wk = NoWorkers
  /\ restoring = {}
  /\ ar = NoReview
  /\ nx = NoAdapterCall
  /\ rc_step = NoStep
  /\ oc = NoStore
  /\ ue = NoUpdate
  /\ mm = NoMetrics

NextWork ==
  \/ \E k \in ContentNames : EnqueueContentWork(k)
  \/ \E k \in ContentNames : DelayOver(k)
  \/ \E w \in Workers : GetItem(w)
  \/ \E w \in Workers, err \in BOOLEAN : ItemSynced(w, err)

SpecWork == InitWork /\ [][NextWork]_vars

\* ------------------------------------------------------------------------
\* Sidecar: the handler of update events

\* UpdateFunc as it would be if it looked at the new object only.
UpdateFuncNewOnly(oldAnn, newAnn, status) ==
  ~(status = "error" /\ ~newAnn)

\* UpdateFunc of the content informer: whether enqueueContentWork is called
\* for an update with being-created on the old object (oldAnn) and on the
\* new one (newAnn) and the status of the new object ("nil", without error,
\* with error).
UpdateFunc(oldAnn, newAnn, status) ==
  ~(status = "error" /\ ~newAnn /\ oldAnn)

\* The informer delivers an update of a content to the handler.
ContentUpdated ==
  \E k \in ContentNames, oldAnn, newAnn \in BOOLEAN,
     status \in {"nil", "noerror", "error"} :
    LET enqueue == UpdateFunc(oldAnn, newAnn, status)
    IN  /\ ue' = [key |-> k, oldAnn |-> oldAnn, newAnn |-> newAnn,
                  status |-> status, enqueued |-> enqueue]
        /\ wq' = IF enqueue THEN QueueAdd(wq, k) ELSE wq
        /\ UNCHANGED <<wk, wh_classes, wh_lister, er_log, dc_pass, restoring,
                       ar, nx, rc_step, oc,
                       mm>>
        /\ ControllersFrame

SpecInformer == InitWork /\ [][ContentUpdated \/ NextWork]_vars

\* ------------------------------------------------------------------------
\* PVCs restored from a VolumeNfsExport

\* A user creates a PVC with the VolumeNfsExport as its data source; the PVC
\* is pending.
RestoreStarts(name) ==
  /\ name \notin restoring
  /\ restoring' = restoring \cup {name}
  /\ UNCHANGED <<wh_classes, wh_lister, er_log, dc_pass, wq, wk,
                 ar,
                 nx,
                 rc_step,
                 oc,
                 ue,
                 mm>>
  /\ ControllersFrame

\* The pending PVC is bound, or deleted.
RestoreEnds(name) ==
  /\ name \in restoring
  /\ restoring' = restoring \ {name}
  /\ UNCHANGED <<wh_classes, wh_lister, er_log, dc_pass, wq, wk,
                 ar,
                 nx,
                 rc_step,
                 oc,
                 ue,
                 mm>>
  /\ ControllersFrame

\* Nothing fails; users delete VolumeNfsExports and restore PVCs from them
\* at any time.
NextRestore ==
  \/ \E c \in ContentNames : SidecarDelete(c, "none")
  \/ \E c \in ContentNames : SidecarRemoveFinalizer(c, TRUE)
  \/ \E c \in ContentNames : SidecarCheckStatus(c, "none", "true")
  \/ \E c \in ContentNames : SidecarCreateStart(c, TRUE)
  \/ SidecarCreateSucceeded("true", "none")
  \/ \E name \in NfsExportNames : CommonSyncNfsExport(name, "none")
  \/ \E name \in NfsExportNames : CommonDeleteNfsExport(name, "none")
  \/ \E c \in ContentNames : CommonSyncContent(c, TRUE)
  \/ \E c \in ContentNames : CommonInformerContent(c)
  \/ \E name \in NfsExportNames : UserDeleteNfsExport(name)
  \/ \E name \in NfsExportNames : RestoreStarts(name)
  \/ \E name \in NfsExportNames : RestoreEnds(name)

SpecRestore == InitResume /\ [][NextRestore]_vars

\* ------------------------------------------------------------------------
\* Admission webhook for VolumeNfsExport and VolumeNfsExportContent

\* The values of a *string field: a nil pointer or a pointer to a string.
Pointers == {"nil", "x", "y"}

\* TRUE when no immutable field was changed (reflect.DeepEqual of the
\* pointers: both nil, or both set to equal strings).
checkNfsExportImmutableFieldsV1(nfsexport, oldNfsExport) ==
  nfsexport.a = oldNfsExport.a /\ nfsexport.b = oldNfsExport.b

\* "ok", "changed", or "panic" when the message of the error dereferences a
\* nil sourceVolumeMode.
checkNfsExportContentImmutableFieldsV1(snapcontent, oldSnapcontent, prevent) ==
  IF snapcontent.a # oldSnapcontent.a THEN "changed"
  ELSE IF snapcontent.b # oldSnapcontent.b THEN "changed"
  ELSE IF prevent /\ snapcontent.mode # oldSnapcontent.mode
    THEN IF snapcontent.mode = "nil" \/ oldSnapcontent.mode = "nil"
           THEN "panic" ELSE "changed"
  ELSE "ok"

\* decideNfsExportV1 as it would be if the immutable fields were checked
\* only when the old object is valid.
decideNfsExportV1WhenOldValid(nfsexport, oldNfsExport, isUpdate) ==
  IF /\ isUpdate /\ oldNfsExport.valid
     /\ ~checkNfsExportImmutableFieldsV1(nfsexport, oldNfsExport)
    THEN "denied"
  ELSE IF nfsexport.valid THEN "allowed" ELSE "denied"

decideNfsExportV1(nfsexport, oldNfsExport, isUpdate) ==
  IF isUpdate /\ ~checkNfsExportImmutableFieldsV1(nfsexport, oldNfsExport)
    THEN "denied"
  ELSE IF nfsexport.valid THEN "allowed" ELSE "denied"

decideNfsExportContentV1(snapcontent, oldSnapcontent, isUpdate, prevent) ==
  LET c == checkNfsExportContentImmutableFieldsV1(snapcontent, oldSnapcontent,
                                                  prevent)
  IN  IF isUpdate /\ c = "changed" THEN "denied"
      ELSE IF isUpdate /\ c = "panic" THEN "panic"
      ELSE IF snapcontent.valid THEN "allowed" ELSE "denied"

\* Admit for the resources volumenfsexports and volumenfsexportcontents.
AdmitObject ==
  /\ ar.response = "none"
  /\ ar.kind # ""
  /\ ar' = [ar EXCEPT !.response =
              IF ar.op \notin {"CREATE", "UPDATE"} THEN "allowed"
              ELSE IF ar.kind = "VolumeNfsExport"
                THEN decideNfsExportV1(ar.new, ar.old, ar.op = "UPDATE")
              ELSE decideNfsExportContentV1(ar.new, ar.old, ar.op = "UPDATE",
                                            ar.prevent)]
  /\ UNCHANGED <<wh_classes, wh_lister, er_log, dc_pass, wq, wk, restoring,
                 nx,
                 rc_step,
                 oc,
                 ue,
                 mm>>
  /\ ControllersFrame

\* Any request for either resource, with any old and new object; only a
\* VolumeNfsExportContent has a sourceVolumeMode.
InitReview ==
  /\ ControllersInit
  /\ wh_classes = NoClasses
  /\ wh_lister = NoClasses
  /\ er_log = <<>>
  /\ dc_pass = NoPass
  /\ wq = NoQueue
  /\ wk = NoWorkers
  /\ restoring = {}
  /\ \E kind \in {"VolumeNfsExport", "VolumeNfsExportContent"},
        op \in {"CREATE", "UPDATE", "DELETE"} :
      LET modes == IF kind = "VolumeNfsExport" THEN {"nil"}
                   ELSE {"nil", "Block"}
      IN
        ar \in [kind : {kind}, op : {op},
                old : [a : Pointers, b : Pointers, mode : modes,
                       valid : BOOLEAN],
                new : [a : Pointers, b : Pointers, mode : modes,
                       valid : BOOLEAN],
                prevent : IF kind = "VolumeNfsExport" THEN {FALSE}
                          ELSE BOOLEAN,
                response : {"none"}]
  /\ nx = NoAdapterCall
  /\ rc_step = NoStep
  /\ oc = NoStore
  /\ ue = NoUpdate
  /\ mm = NoMetrics

SpecReview == InitReview /\ [][AdmitObject]_vars

\* ------------------------------------------------------------------------
\* Driver adapter (pkg/nfsexporter)

\* CreateNfsExport of the adapter: the request to the driver is commented
\* out, and the same values are returned whatever the driver would answer.
CreateNfsExport(rsp) ==
  [driverName |-> "", nfsexportId |-> "", size |-> 0, readyToUse |-> TRUE,
   err |-> FALSE]

AdapterCreate ==
  /\ nx.pc = "called"
  /\ nx' = [nx EXCEPT !.ret = CreateNfsExport(nx.rsp), !.pc = "returned"]
  /\ UNCHANGED <<wh_classes, wh_lister, er_log, dc_pass, wq, wk, restoring,
                 ar,
                 rc_step,
                 oc,
                 ue,
                 mm>>
  /\ ControllersFrame

\* The driver answers with an error of any code, or with an export.
InitAdapter ==
  /\ ControllersInit
  /\ wh_classes = NoClasses
  /\ wh_lister = NoClasses
  /\ er_log = <<>>
  /\ dc_pass = NoPass
  /\ wq = NoQueue
  /\ wk = NoWorkers
  /\ restoring = {}
  /\ ar = NoReview
  /\ nx \in [rsp : [code : {"OK"} \cup (Errors \ {"NotGRPC"}),
                    id : {"testid", "testid2"}, size : {0, 1000},
                    ready : BOOLEAN],
             ret : {NoAdapterCall.ret}, pc : {"called"}]
  /\ rc_step = NoStep
  /\ oc = NoStore
  /\ ue = NoUpdate
  /\ mm = NoMetrics

SpecAdapter == InitAdapter /\ [][AdapterCreate]_vars

\* ------------------------------------------------------------------------
\* Steps of a pass that read optional fields

\* The name of the export for the driver.  A slice [0:n] of a string panics
\* when n is negative or greater than the length of the string.
makeNfsExportName(prefix, nfsexportUID, nfsexportNameUUIDLength) ==
  LET stripped == SelectSeq(nfsexportUID, LAMBDA ch : ch # "-")
  IN  IF Len(nfsexportUID) = 0 THEN [outcome |-> "error", name |-> <<>>]
      ELSE IF nfsexportNameUUIDLength = -1
        THEN [outcome |-> "ok", name |-> prefix \o <<"-">> \o nfsexportUID]
      ELSE IF \/ nfsexportNameUUIDLength < 0
              \/ nfsexportNameUUIDLength > Len(stripped)
        THEN [outcome |-> "panic", name |-> <<>>]
      ELSE [outcome |-> "ok",
            name |-> prefix \o <<"-">> \o
                       SubSeq(stripped, 1, nfsexportNameUUIDLength)]

\* The body of the loop of isVolumeBeingCreatedFromNfsExport for one PVC:
\* the API group of the data source is dereferenced once name and kind
\* match.
pvcIsCreatedFromNfsExport(p, name) ==
  IF p.hasDataSource /\ p.name = name
    THEN IF p.kind # "VolumeNfsExport" THEN "false"
         ELSE IF p.apiGroup = "nil" THEN "panic"
         ELSE IF p.apiGroup = "nfsexport.storage.k8s.io"
                 /\ p.phase = "Pending" THEN "true"
         ELSE "false"
    ELSE "false"

\* The first check of updateContentErrorStatusWithEvent: the message of the
\* error of the status is dereferenced once status and error are set.
sameErrorAlreadySet(status, message) ==
  IF status.set /\ status.hasError
    THEN IF status.message = "nil" THEN "panic"
         ELSE IF status.message = message THEN "true" ELSE "false"
    ELSE "false"

\* isDriverMatch as it would be if the class of the content were not
\* looked at.
isDriverMatchByDriverOnly(content, classes, driverName) ==
  /\ content.volumeHandle \/ content.sourceHandle
  /\ content.driver = driverName

\* isDriverMatch of the sidecar started for driverName: the content has a
\* source, its driver is driverName, and the class it names, when the lister
\* has it, is of driverName.
isDriverMatch(content, classes, driverName) ==
  IF ~content.volumeHandle /\ ~content.sourceHandle THEN FALSE
  ELSE IF content.driver # driverName THEN FALSE
  ELSE IF /\ content.className # ""
          /\ classes[content.className].exists
          /\ classes[content.className].driver # driverName THEN FALSE
  ELSE TRUE

\* CreateNfsExport of the handler as it would be if the volume handle were
\* not checked.
handlerCreateWithoutVolumeCheck(content, uid, uuidLength) ==
  LET made == makeNfsExportName(<<"nfsexport">>, uid, uuidLength)
  IN  IF Len(uid) = 0 THEN [outcome |-> "error", rpc |-> ""]
      ELSE IF made.outcome # "ok" THEN [outcome |-> made.outcome, rpc |-> ""]
      ELSE [outcome |-> "ok", rpc |-> "CreateNfsExport"]

\* CreateNfsExport of the handler for a content whose nfsexport has the UID
\* uid: what it returns before the driver answers, and the call it sends.
handlerCreateNfsExport(content, uid, uuidLength) ==
  LET made == makeNfsExportName(<<"nfsexport">>, uid, uuidLength)
  IN  IF Len(uid) = 0 THEN [outcome |-> "error", rpc |-> ""]
      ELSE IF ~content.volumeHandle THEN [outcome |-> "error", rpc |-> ""]
      ELSE IF made.outcome # "ok" THEN [outcome |-> made.outcome, rpc |-> ""]
      ELSE [outcome |-> "ok", rpc |-> "CreateNfsExport"]

\* DeleteNfsExport of the handler: the handle of the status, else the handle
\* of the source, else an error.
handlerDeleteNfsExport(content) ==
  IF content.statusHandle \/ content.sourceHandle
    THEN [outcome |-> "ok", rpc |-> "DeleteNfsExport"]
    ELSE [outcome |-> "error", rpc |-> ""]

\* GetNfsExportStatus of the handler: the same choice of the handle.
handlerGetNfsExportStatus(content) ==
  IF content.statusHandle \/ content.sourceHandle
    THEN [outcome |-> "ok", rpc |-> "GetNfsExportStatus"]
    ELSE [outcome |-> "error", rpc |-> ""]

\* newStatus as it would be if the handle the driver answered were always
\* taken.
newStatusTakingHandle(status, nfsexportHandle, readyToUse, createdAt, size) ==
  LET ready == IF readyToUse THEN "true" ELSE "false"
  IN  [set |-> TRUE, handle |-> nfsexportHandle, ready |-> ready,
       ctime |-> IF status.ctime = "nil" THEN createdAt ELSE status.ctime,
       size |-> IF status.size = "nil" THEN size ELSE status.size,
       error |-> IF status.ready # ready /\ readyToUse
                   THEN "nil" ELSE status.error]

\* newStatus of updateNfsExportContentStatus: the status it builds from the
\* status of the object read from the API server and the answer of the
\* driver.  It calls UpdateStatus iff a field was set or changed, which is
\* iff the status built differs from the one read.
newStatus(status, nfsexportHandle, readyToUse, createdAt, size) ==
  LET ready == IF readyToUse THEN "true" ELSE "false"
  IN  IF ~status.set
        THEN [set |-> TRUE, handle |-> nfsexportHandle, ready |-> ready,
              ctime |-> createdAt, size |-> size, error |-> "nil"]
        ELSE [set |-> TRUE,
              handle |-> IF status.handle = "nil" THEN nfsexportHandle
                         ELSE status.handle,
              ready |-> ready,
              ctime |-> IF status.ctime = "nil" THEN createdAt
                        ELSE status.ctime,
              size |-> IF status.size = "nil" THEN size ELSE status.size,
              error |-> IF status.ready # ready /\ readyToUse
                          THEN "nil" ELSE status.error]

ReconcileStep ==
  /\ rc_step.outcome = "none"
  /\ rc_step.fn # ""
  /\ LET merged == newStatus(rc_step.old, "h2", rc_step.readyToUse, "t2",
                             "z2")
         res ==
           IF rc_step.fn = "makeNfsExportName"
             THEN [outcome |-> makeNfsExportName(<<"nfsexport">>, rc_step.uid,
                                                 rc_step.uuidLength).outcome,
                   rpc |-> ""]
           ELSE IF rc_step.fn = "isVolumeBeingCreatedFromNfsExport"
             THEN [outcome |-> pvcIsCreatedFromNfsExport(rc_step.pvc, "s1"),
                   rpc |-> ""]
           ELSE IF rc_step.fn = "updateContentErrorStatusWithEvent"
             THEN [outcome |-> sameErrorAlreadySet(rc_step.status,
                                                   rc_step.message),
                   rpc |-> ""]
           ELSE IF rc_step.fn = "syncContentByKey"
             THEN [outcome |-> IF isDriverMatch(rc_step.content,
                                                rc_step.classes, "d1")
                                 THEN "processed" ELSE "skipped",
                   rpc |-> ""]
           ELSE IF rc_step.fn = "CreateNfsExport"
             THEN handlerCreateNfsExport(rc_step.content, rc_step.uid,
                                         rc_step.uuidLength)
           ELSE IF rc_step.fn = "DeleteNfsExport"
             THEN handlerDeleteNfsExport(rc_step.content)
           ELSE handlerGetNfsExportStatus(rc_step.content)
     IN  rc_step' =
           IF rc_step.fn = "updateNfsExportContentStatus"
             THEN [rc_step EXCEPT !.outcome = "ok", !.new = merged,
                                  !.wrote = (merged # rc_step.old)]
             ELSE [rc_step EXCEPT !.outcome = res.outcome, !.rpc = res.rpc]
  /\ UNCHANGED <<wh_classes, wh_lister, er_log, dc_pass, wq, wk, restoring,
                 ar, nx,
                 oc,
                 ue,
                 mm>>
  /\ ControllersFrame

\* Any UID (a sequence of characters: none, without dashes, with dashes)
\* and any value of the flag for its length in the name; any data source of
\* a PVC; any status of a content; any content and any classes of the lister
\* for the driver filter of a sidecar started for driver d1; any content
\* for the three calls of the handler; any status of a content and any
\* readiness the driver answers for the merge into the status.
InitStep ==
  /\ ControllersInit
  /\ wh_classes = NoClasses
  /\ wh_lister = NoClasses
  /\ er_log = <<>>
  /\ dc_pass = NoPass
  /\ wq = NoQueue
  /\ wk = NoWorkers
  /\ restoring = {}
  /\ ar = NoReview
  /\ nx = NoAdapterCall
  /\ \/ \E uid \in {<<>>, <<"a">>, <<"a", "-", "b">>,
                      <<"a", "b", "-", "c", "d">>},
           n \in {-2, -1, 0, 1, 4, 5} :
          rc_step = [NoStep EXCEPT !.fn = "makeNfsExportName", !.uid = uid,
                                   !.uuidLength = n]
     \/ \E p \in [hasDataSource : BOOLEAN, name : {"s1", "s2"},
                  kind : {"VolumeNfsExport", "PersistentVolumeClaim"},
                  apiGroup : {"nil", "nfsexport.storage.k8s.io", "other"},
                  phase : {"Pending", "Bound"}] :
          rc_step = [NoStep EXCEPT
                       !.fn = "isVolumeBeingCreatedFromNfsExport", !.pvc = p]
     \/ \E st \in [set : BOOLEAN, hasError : BOOLEAN,
                   message : {"nil", "failed", "other"}] :
          rc_step = [NoStep EXCEPT
                       !.fn = "updateContentErrorStatusWithEvent",
                       !.status = st, !.message = "failed"]
     \/ \E ct \in [volumeHandle : BOOLEAN, sourceHandle : BOOLEAN,
                   statusHandle : {FALSE}, driver : {"d1", "d2"},
                   className : {"", "k1"}],
           cl \in [{"k1", "k2"} ->
                    [exists : {TRUE}, driver : {"d1", "d2"}]
                      \cup {[exists |-> FALSE, driver |-> ""]}] :
          rc_step = [NoStep EXCEPT !.fn = "syncContentByKey",
                                   !.content = ct, !.classes = cl]
     \/ \E st \in [set : {TRUE}, handle : {"nil", "h1"},
                   ready : {"nil", "true", "false"}, ctime : {"nil", "t1"},
                   size : {"nil", "z1"}, error : {"nil", "e"}]
                    \cup {NoStep.old},
           readyToUse \in BOOLEAN :
          rc_step = [NoStep EXCEPT !.fn = "updateNfsExportContentStatus",
                                   !.old = st, !.readyToUse = readyToUse]
     \/ \E fn \in {"CreateNfsExport", "DeleteNfsExport",
                    "GetNfsExportStatus"},
           ct \in [volumeHandle : BOOLEAN, sourceHandle : BOOLEAN,
                   statusHandle : BOOLEAN, driver : {"d1"},
                   className : {""}],
           uid \in {<<>>, <<"a", "-", "b">>}, n \in {-1, 1, 4} :
          rc_step = [NoStep EXCEPT !.fn = fn, !.content = ct, !.uid = uid,
                                   !.uuidLength = n]
  /\ oc = NoStore
  /\ ue = NoUpdate
  /\ mm = NoMetrics

SpecStep == InitStep /\ [][ReconcileStep]_vars

\* ------------------------------------------------------------------------
\* A content whose VolumeNfsExport is gone or was created again

\* The content of a dynamically provisioned VolumeNfsExport s1 (UID u1) was
\* kept, with any policy, with or without its finalizer; s1 is gone, or a
\* user has created a pre-provisioned s1 again (UID u9), with or without
\* the finalizers in its manifest, naming the content pre1, which an
\* administrator has made or not.  The cache of the common controller holds
\* the kept content as it is stored, or as it was before its status was
\* written.
InitOrphan ==
  /\ class = [policy |-> "Delete", paramsValid |-> TRUE]
  /\ \E p \in {"Delete", "Retain"}, f, e, stale \in BOOLEAN :
       /\ contents =
            [NoContents EXCEPT
               !["snapcontent-u1"] =
                 [AbsentContent EXCEPT !.exists = TRUE, !.policy = p,
                                       !.refName = "s1", !.refUID = "u1",
                                       !.class = TRUE, !.fin = f,
                                       !.stSet = TRUE, !.handle = TRUE,
                                       !.ready = "true", !.ctime = TRUE,
                                       !.size = TRUE],
               ![PreProvisionedName] =
                 IF e THEN PreProvisionedContent("Delete", "s1", FALSE)
                 ELSE @]
       /\ cc_contents =
            [contents EXCEPT
               !["snapcontent-u1"] =
                 IF stale
                   THEN [@ EXCEPT !.stSet = FALSE, !.handle = FALSE,
                                  !.ready = "nil", !.ctime = FALSE,
                                  !.size = FALSE]
                   ELSE @]
  /\ \/ nfsexports = NoNfsExports
     \/ \E fs, fb \in BOOLEAN :
          nfsexports =
            [NoNfsExports EXCEPT !["s1"] =
               [PreProvisionedNfsExport("s1") EXCEPT
                  !.uid = "u9", !.finSource = fs, !.finBound = fb]]
  /\ pvc = [fin |-> FALSE]
  /\ backend = [c \in ContentNames |->
                  IF contents[c].exists THEN "exists" ELSE "none"]
  /\ sc_pc = "idle"
  /\ sc_local = NoLocal
  /\ rp_contents = [r \in Replicas |-> NoContents]
  /\ rp_call = [r \in Replicas |-> NoCall]
  /\ unknown = [c \in ContentNames |-> FALSE]
  /\ evt = NoEvt
  /\ wh_classes = NoClasses
  /\ wh_lister = NoClasses
  /\ er_log = <<>>
  /\ dc_pass = NoPass
  /\ wq = NoQueue
  /\ wk = NoWorkers
  /\ restoring = {}
  /\ ar = NoReview
  /\ nx = NoAdapterCall
  /\ rc_step = NoStep
  /\ oc = NoStore
  /\ ue = NoUpdate
  /\ mm = NoMetrics

SpecOrphan ==
  InitOrphan /\
  [][\/ \E name \in NfsExportNames, fail \in Writes :
          CommonSyncNfsExport(name, fail)
     \/ \E name \in NfsExportNames, fail \in Writes :
          CommonDeleteNfsExport(name, fail)
     \/ \E c \in ContentNames, ok \in BOOLEAN : CommonSyncContent(c, ok)
     \/ \E c \in ContentNames : CommonInformerContent(c)
     \/ \E name \in NfsExportNames : UserDeleteNfsExport(name)]_vars

\* ------------------------------------------------------------------------
\* Common controller: the metrics of creating a VolumeNfsExport

\* No-op when the operation is in flight already.
OperationStart(m, op) == [m EXCEPT !.cache = @ \cup {op}]

\* RecordMetrics with status success: observes the latency of an operation
\* in flight and drops it; returns directly for one that is not.
RecordMetrics(m, op) ==
  IF op \notin m.cache THEN m
  ELSE [m EXCEPT !.observed[op] = @ + 1, !.cache = @ \ {op}]

\* syncUnreadyNfsExport for a VolumeNfsExport whose content is in the store:
\* the operations are started, updateNfsExportStatus reads the stored
\* object, records the success metrics when the status it is about to write
\* makes the object created or ready, and then writes the status (ok: the
\* API server accepts it).  After a refused write the error is written to
\* the status (errOk: the API server accepts that write) and the pass
\* returns the error, so that it is tried again.
SyncUnreadyNfsExport(ok, errOk) ==
  LET c     == GetDynamicNfsExportContentNameForNfsExport(mm.stored.uid)
      m1    == IF mm.cached.stSet /\ mm.cached.ctime THEN mm
               ELSE OperationStart(mm, "CreateNfsExport")
      m2    == OperationStart(m1, "CreateNfsExportAndReady")
      clone == updateNfsExportStatus(mm.stored, c, mm.content, TRUE)
      m3    == IF /\ clone.wrote
                  /\ ~(mm.stored.stSet /\ mm.stored.ctime)
                  /\ clone.ns.stSet /\ clone.ns.ctime
                 THEN RecordMetrics(m2, "CreateNfsExport") ELSE m2
      m4    == IF /\ clone.wrote
                  /\ ~IsNfsExportReady(mm.stored)
                  /\ IsNfsExportReady(clone.ns)
                 THEN RecordMetrics(m3, "CreateNfsExportAndReady") ELSE m3
      us    == updateNfsExportStatus(mm.stored, c, mm.content, ok)
      er    == updateNfsExportErrorStatusWithEvent(
                 mm.stored, mm.stored, TRUE, "NfsExportStatusUpdateFailed")
  IN  /\ mm.stored.exists
      /\ ~(IsNfsExportReady(mm.cached)
             /\ IsBoundVolumeNfsExportContentNameSet(mm.cached))
      /\ \A op \in DOMAIN mm.observed : mm.observed[op] < 2
      /\ mm' = IF ~us.err
                 THEN [m4 EXCEPT !.stored = us.ns, !.cached = us.ns]
               ELSE IF errOk
                 THEN [m4 EXCEPT !.stored = er.ns, !.cached = er.ns]
               ELSE m4
      /\ UNCHANGED <<wh_classes, wh_lister, er_log, dc_pass, wq, wk,
                     restoring, ar, nx, rc_step, oc, ue>>
      /\ ControllersFrame

\* The sidecar writes what the driver answered to the status of the content,
\* and the store of the common controller takes the new object.
ContentStatusUpdated(readyToUse) ==
  LET r == updateNfsExportContentStatus(mm.content, mm.content, readyToUse,
                                        TRUE)
  IN  /\ mm.stored.exists
      /\ r.wrote
      /\ mm' = [mm EXCEPT !.content = r.st]
      /\ UNCHANGED <<wh_classes, wh_lister, er_log, dc_pass, wq, wk,
                     restoring, ar, nx, rc_step, oc, ue>>
      /\ ControllersFrame

\* The VolumeNfsExport s1 of a PVC has no status yet or is bound and not
\* ready; its content has no status yet; no operation is in flight.
InitMetrics ==
  /\ ControllersInit
  /\ wh_classes = NoClasses
  /\ wh_lister = NoClasses
  /\ er_log = <<>>
  /\ dc_pass = NoPass
  /\ wq = NoQueue
  /\ wk = NoWorkers
  /\ restoring = {}
  /\ ar = NoReview
  /\ nx = NoAdapterCall
  /\ rc_step = NoStep
  /\ oc = NoStore
  /\ ue = NoUpdate
  /\ \E bound, fs, fb \in BOOLEAN :
       LET n == [DynamicNfsExport("s1") EXCEPT
                   !.finSource = fs, !.finBound = fb,
                   !.stSet = bound,
                   !.bound = IF bound THEN "snapcontent-u1" ELSE "",
                   !.ready = IF bound THEN "false" ELSE "nil"]
       IN  mm = [NoMetrics EXCEPT
                   !.stored = n, !.cached = n,
                   !.content = [AbsentContent EXCEPT
                                  !.exists = TRUE, !.refName = "s1",
                                  !.refUID = "u1", !.class = TRUE,
                                  !.fin = TRUE]]

SpecMetrics ==
  InitMetrics /\
  [][\/ \E ok, errOk \in BOOLEAN : SyncUnreadyNfsExport(ok, errOk)
     \/ \E readyToUse \in {"true", "false"} :
          ContentStatusUpdated(readyToUse)]_vars

\* ------------------------------------------------------------------------
\* Properties

\* The sidecar removed the content finalizer of c in this step.
FinalizerRemoved(c) ==
  /\ contents[c].exists /\ contents[c].fin
  /\ ~(contents'[c].exists /\ contents'[c].fin)

\* The sidecar called DeleteNfsExport for c in this step.
DeleteIssued(c) ==
  /\ vars' # vars
  /\ evt'.op = "DeleteNfsExport" /\ evt'.c = c

\* The sidecar removed being-created from c in this step: the common
\* controller changes the annotations only by adding being-deleted.
BeingCreatedRemoved(c) ==
  /\ contents[c].exists /\ contents[c].annCreated
  /\ contents'[c].exists /\ ~contents'[c].annCreated
  /\ contents'[c].annDeleted = contents[c].annDeleted

\* C1: when CreateNfsExport is called for a content, being-created is on the
\* stored content; a pass whose write of being-created failed calls nothing.
C1_CreateOnlyAfterAnnotation ==
  /\ evt.op = "CreateNfsExport" => contents[evt.c].annCreated
  /\ evt.annFail => evt.op = ""

\* A CreateNfsExport has just been called for an annotated content.
C1_Witness ==
  /\ evt.op = "CreateNfsExport"
  /\ sc_pc = "create"
  /\ contents[evt.c].annCreated

\* C2 as stated: no CreateNfsExport is called for a content while the
\* outcome of an earlier call for it is not known.
C2_NoSecondCreate == evt.op = "CreateNfsExport" => ~unknown[evt.c]

\* C2, amended: the sidecar removes being-created from a content only when
\* no CreateNfsExport for it is left without a known outcome; until then
\* every pass calls CreateNfsExport again with the annotation kept.
C2_AnnotationKeptUntilOutcome ==
  [][\A c \in ContentNames : BeingCreatedRemoved(c) => ~unknown'[c]]_vars

\* CreateNfsExport is called again while the outcome of an earlier call is
\* not known, the content still annotated.
C2_Witness ==
  /\ evt.op = "CreateNfsExport"
  /\ unknown[evt.c]
  /\ contents[evt.c].annCreated

\* C3: the sidecar removes the finalizer of a dynamically provisioned content
\* with policy Delete only when no export of it exists, or is being created,
\* on the storage system.
C3_FinalizerKeptWhileExportExists ==
  [][\A c \in ContentNames :
       (/\ FinalizerRemoved(c)
        /\ contents[c].policy = "Delete"
        /\ contents[c].source = "volume") => backend'[c] = "none"]_vars

\* C4: in a step that starts with being-created on the stored content, the
\* sidecar neither calls DeleteNfsExport for it nor removes its finalizer.
C4_NoDeleteWhileBeingCreated ==
  [][\A c \in ContentNames :
       (contents[c].exists /\ contents[c].annCreated)
         => ~DeleteIssued(c) /\ ~FinalizerRemoved(c)]_vars

\* A content with deletion timestamp, policy Delete, being-deleted and the
\* finalizer still carries being-created.
C4_Witness ==
  \E c \in ContentNames :
    /\ contents[c].exists /\ contents[c].delTs /\ contents[c].fin
    /\ contents[c].policy = "Delete"
    /\ contents[c].annDeleted /\ contents[c].annCreated

\* C5 as stated: when no pass of the sidecar is in progress, a content
\* carries being-created iff a CreateNfsExport for it has no known outcome.
C5_AnnotationIffOutstanding ==
  sc_pc = "idle" =>
    \A c \in ContentNames :
      contents[c].exists => (contents[c].annCreated <=> unknown[c])

\* VolumeNfsExport s has status.boundVolumeNfsExportContentName set.
Bound(s) ==
  nfsexports[s].exists /\ IsBoundVolumeNfsExportContentNameSet(nfsexports[s])

\* Content c refers to VolumeNfsExport s, by UID too when s is dynamically
\* provisioned.
PointsBack(s, c) ==
  /\ contents[c].refName = s
  /\ nfsexports[s].source = "claim" => contents[c].refUID = nfsexports[s].uid

\* C6 as stated: when no pass is in progress, the content a VolumeNfsExport
\* is bound to exists and points back to it.
C6_BoundContentExists ==
  sc_pc = "idle" =>
    \A s \in NfsExportNames :
      Bound(s) => /\ contents[nfsexports[s].bound].exists
                  /\ PointsBack(s, nfsexports[s].bound)

\* C6, amended: the content a VolumeNfsExport is bound to points back to it
\* for as long as it exists, and it exists for as long as the VolumeNfsExport
\* has no deletion timestamp.
C6_BoundContentPointsBack ==
  \A s \in NfsExportNames :
    Bound(s) =>
      /\ ~nfsexports[s].delTs => contents[nfsexports[s].bound].exists
      /\ contents[nfsexports[s].bound].exists
            => PointsBack(s, nfsexports[s].bound)

\* A pre-provisioned VolumeNfsExport is bound to the content made for it,
\* and the content carries its UID.
C6_Witness ==
  \E s \in NfsExportNames :
    /\ Bound(s) /\ ~nfsexports[s].delTs
    /\ nfsexports[s].source = "content"
    /\ contents[nfsexports[s].bound].exists
    /\ contents[nfsexports[s].bound].refUID = nfsexports[s].uid

\* C7: a stored content with status.readyToUse true has
\* status.nfsexportHandle set.
C7_ReadyImpliesHandle ==
  \A c \in ContentNames :
    (contents[c].exists /\ contents[c].stSet /\ contents[c].ready = "true")
      => contents[c].handle

\* A content is ready to use and has its handle.
C7_Witness ==
  \E c \in ContentNames :
    /\ contents[c].exists /\ contents[c].stSet
    /\ contents[c].ready = "true" /\ contents[c].handle

\* The content of dynamically provisioned VolumeNfsExport s has been created
\* and s is not ready to use.
BeingCut(s) ==
  /\ nfsexports[s].exists /\ nfsexports[s].source = "claim"
  /\ contents[GetDynamicNfsExportContentNameForNfsExport(
                nfsexports[s].uid)].exists
  /\ ~IsNfsExportReady(nfsexports[s])

C9_DeleteOnlyWithBeingDeleted ==
  [][\A c \in ContentNames : DeleteIssued(c) => contents[c].annDeleted]_vars

\* C9, amended: DeleteNfsExport is called only for a content with a deletion
\* timestamp that carries being-deleted or is pre-provisioned and not bound.
C9_DeleteOnlyWhenPermitted ==
  [][\A c \in ContentNames :
       DeleteIssued(c) =>
         /\ contents[c].delTs
         /\ \/ contents[c].annDeleted
            \/ contents[c].source = "export" /\ contents[c].refUID = ""]_vars

\* DeleteNfsExport was called, and failed, for a content without
\* being-deleted.
C9_Witness ==
  /\ evt.op = "DeleteNfsExport"
  /\ contents[evt.c].exists /\ contents[evt.c].handle
  /\ ~contents[evt.c].annDeleted

\* Content c is bound, has policy Retain and no deletion timestamp.
RetainedBound(c) ==
  /\ contents[c].exists /\ contents[c].policy = "Retain"
  /\ contents[c].refUID # "" /\ ~contents[c].delTs

\* C10: no step calls DeleteNfsExport for a bound content with policy Retain,
\* deletes it or takes its status.nfsexportHandle away, whatever happens to
\* its VolumeNfsExport.
C10_RetainKeepsContent ==
  [][\A c \in ContentNames :
       RetainedBound(c) =>
         /\ ~DeleteIssued(c)
         /\ contents'[c].exists /\ ~contents'[c].delTs
         /\ (contents[c].stSet /\ contents[c].handle)
              => (contents'[c].stSet /\ contents'[c].handle)]_vars

\* The VolumeNfsExport is gone; its content, of policy Retain, is still
\* there with its handle.
C10_Witness ==
  \E c \in ContentNames :
    /\ RetainedBound(c) /\ contents[c].stSet /\ contents[c].handle
    /\ ~nfsexports[contents[c].refName].exists

\* The content the deletion path of VolumeNfsExport s looks up in the cache
\* of the common controller.
DeletionContentName(s) ==
  IF IsBoundVolumeNfsExportContentNameSet(nfsexports[s])
    THEN nfsexports[s].bound ELSE SourceContentName(nfsexports[s])

\* The cache holds a content of policy Delete that refers to s.
MatchingDeleteContent(s) ==
  LET cv == cc_contents[DeletionContentName(s)]
  IN  /\ IsBoundVolumeNfsExportContentNameSet(nfsexports[s])
         \/ nfsexports[s].source = "claim"
      /\ cv.exists /\ IsVolumeNfsExportRefSet(s, nfsexports[s], cv)
      /\ cv.policy = "Delete"

\* VolumeNfsExport s has finalizer f now and not after the step.
NfsExportFinalizerRemoved(s, f) ==
  /\ nfsexports[s].exists /\ nfsexports[s][f]
  /\ ~(nfsexports'[s].exists /\ nfsexports'[s][f])

\* The store holds the content s is bound to; it has policy Delete and
\* refers to s.
BoundToDeleteContent(s) ==
  /\ Bound(s)
  /\ contents[nfsexports[s].bound].exists
  /\ contents[nfsexports[s].bound].policy = "Delete"
  /\ IsVolumeNfsExportRefSet(s, nfsexports[s], contents[nfsexports[s].bound])

\* C11 as stated: the bound finalizer is removed only when there is no
\* matching content of policy Delete, it is kept by a pass that removes the
\* other finalizer only when there is one, and a VolumeNfsExport bound to a
\* content of policy Delete does not leave the store before the content.
C11_BoundKeptUntilContentGone ==
  [][\A s \in NfsExportNames :
       /\ NfsExportFinalizerRemoved(s, "finBound") => ~MatchingDeleteContent(s)
       /\ (NfsExportFinalizerRemoved(s, "finSource")
             /\ nfsexports[s].finBound
             /\ nfsexports'[s].exists /\ nfsexports'[s].finBound)
            => MatchingDeleteContent(s)
       /\ (BoundToDeleteContent(s) /\ ~nfsexports'[s].exists)
            => ~contents'[nfsexports[s].bound].exists]_vars

\* C11, amended: the same, the last part for a VolumeNfsExport that has the
\* bound finalizer.
C11_BoundFinalizerKeptUntilContentGone ==
  [][\A s \in NfsExportNames :
       /\ NfsExportFinalizerRemoved(s, "finBound") => ~MatchingDeleteContent(s)
       /\ (NfsExportFinalizerRemoved(s, "finSource")
             /\ nfsexports[s].finBound
             /\ nfsexports'[s].exists /\ nfsexports'[s].finBound)
            => MatchingDeleteContent(s)
       /\ (BoundToDeleteContent(s) /\ nfsexports[s].finBound
             /\ ~nfsexports'[s].exists)
            => ~contents'[nfsexports[s].bound].exists]_vars

\* A pass of the deletion path has removed the other finalizer and kept the
\* bound one: the content, of policy Delete, is still being deleted.
C11_Witness ==
  \E s \in NfsExportNames :
    /\ BoundToDeleteContent(s) /\ contents[nfsexports[s].bound].delTs
    /\ nfsexports[s].delTs
    /\ nfsexports[s].finBound /\ ~nfsexports[s].finSource

\* Some dynamically provisioned VolumeNfsExport other than s is not ready.
OtherBeingCut(s) ==
  \E t \in NfsExportNames \ {s} :
    /\ nfsexports[t].exists /\ nfsexports[t].source = "claim"
    /\ ~IsNfsExportReady(nfsexports[t])

Quiescent ==
  ~ENABLED <<NextComplete>>_<<contents, nfsexports, pvc, backend, sc_pc,
                              cc_contents>>

\* The content named c as an uninterrupted run leaves it: bound to "s1",
\* with its finalizer and the status the driver reported.
TerminalContent(c) ==
  LET made == IF c = PreProvisionedName
                THEN PreProvisionedContent(class.policy, "s1", TRUE)
                ELSE NewContent("s1", DynamicNfsExport("s1"))
  IN  [made EXCEPT !.refUID = UIDOf("s1"), !.fin = TRUE, !.stSet = TRUE,
                   !.handle = TRUE, !.ready = "true", !.ctime = TRUE,
                   !.size = TRUE]

\* VolumeNfsExport "s1" as an uninterrupted run leaves it once it is bound
\* to the content named c.
TerminalNfsExport(c) ==
  LET made == IF c = PreProvisionedName
                THEN PreProvisionedNfsExport("s1") ELSE DynamicNfsExport("s1")
  IN  [made EXCEPT !.stSet = TRUE, !.bound = c, !.ready = "true",
                   !.ctime = TRUE, !.size = TRUE, !.finSource = TRUE,
                   !.finBound = (class.policy = "Delete")]

\* The state an uninterrupted run ends in: "s1" is ready and bound, or,
\* after its deletion, it is gone, with its content and the export when the
\* policy is Delete, leaving both when it is Retain.
Converged ==
  \E c \in {PreProvisionedName,
             GetDynamicNfsExportContentNameForNfsExport(UIDOf("s1"))} :
    /\ ~pvc.fin
    /\ cc_contents = contents
    /\ \A d \in ContentNames \ {c} :
         ~contents[d].exists /\ backend[d] = "none"
    /\ ~nfsexports["s2"].exists
    /\ \/ /\ nfsexports["s1"] = TerminalNfsExport(c)
          /\ contents[c] = TerminalContent(c)
          /\ backend[c] = "exists"
       \/ /\ ~nfsexports["s1"].exists
          /\ class.policy = "Delete"
          /\ ~contents[c].exists
          /\ backend[c] = "none"
       \/ /\ ~nfsexports["s1"].exists
          /\ class.policy = "Retain"
          /\ contents[c] = [TerminalContent(c) EXCEPT !.annDeleted = TRUE]
          /\ backend[c] = "exists"

\* C13: whatever passes were cut short after some of their writes and
\* calls, the state in which no complete pass changes anything any more is
\* the one an uninterrupted run ends in.
C13_ResumeConverges == Quiescent => Converged

\* The sidecar stopped after it had written the status of a created export
\* and before it removed being-created; the common controller had stopped
\* after it had created the content and before it bound the VolumeNfsExport
\* to it.
C13_Witness ==
  \E c \in ContentNames :
    /\ sc_pc = "idle" /\ contents[c].exists /\ contents[c].annCreated
    /\ contents[c].stSet /\ contents[c].ready = "true"
    /\ ~IsBoundVolumeNfsExportContentNameSet(nfsexports[contents[c].refName])

\* Dynamically provisioned VolumeNfsExport s has no
\* boundVolumeNfsExportContentName yet although its content is in the store.
CreatedUnbound(s) ==
  LET c == GetDynamicNfsExportContentNameForNfsExport(UIDOf(s))
  IN  /\ nfsexports[s].exists /\ nfsexports[s].source = "claim"
      /\ ~IsBoundVolumeNfsExportContentNameSet(nfsexports[s])
      /\ contents[c].exists
      /\ IsVolumeNfsExportRefSet(s, nfsexports[s], contents[c])

\* C14: a dynamically provisioned content has the name made from the UID it
\* refers to, so there is one per UID.  When the content is there and its
\* VolumeNfsExport is not bound yet, the pass that binds the
\* VolumeNfsExport binds it to that content and leaves the content as it
\* is, and the pass that lets a deleted VolumeNfsExport go has deleted that
\* content if its policy is Delete.
C14_ContentCreatedOnce ==
  [][/\ \A c \in ContentNames :
          (contents'[c].exists /\ contents'[c].source = "volume")
            => c = GetDynamicNfsExportContentNameForNfsExport(
                     contents'[c].refUID)
     /\ \A s \in NfsExportNames :
          LET c == GetDynamicNfsExportContentNameForNfsExport(UIDOf(s))
          IN  CreatedUnbound(s) =>
                /\ IsBoundVolumeNfsExportContentNameSet(nfsexports'[s])
                     => /\ nfsexports'[s].bound = c
                        /\ contents'[c] = contents[c]
                /\ (/\ nfsexports[s].delTs /\ ~nfsexports'[s].exists
                    /\ contents[c].policy = "Delete")
                     => (~contents'[c].exists \/ contents'[c].delTs)
    ]_vars

\* The content of "s1" was created, the write of
\* boundVolumeNfsExportContentName did not happen, and "s1" has been
\* deleted since.
C14_Witness ==
  CreatedUnbound("s1") /\ nfsexports["s1"].delTs /\ nfsexports["s1"].finSource

\* A replica has a CreateNfsExport for c in flight.
CreateOutstanding(c) ==
  \E q \in Replicas : rp_call[q].pc = "create" /\ rp_call[q].c = c

\* C15: with several sidecar replicas on the same content and no leader
\* election, no replica removes the finalizer of a content with policy
\* Delete, or calls DeleteNfsExport for it, while the CreateNfsExport of
\* another replica is in flight.  A replica that deletes has no call in
\* flight itself, so the call in flight is another replica's.
C15_ReplicasNeverDeleteDuringCreate ==
  [][\A c \in ContentNames :
       (contents[c].exists /\ contents[c].policy = "Delete"
          /\ CreateOutstanding(c))
         => ~FinalizerRemoved(c) /\ ~DeleteIssued(c)]_vars

\* C16: once a VolumeNfsExport and its content are steady, a pass of the
\* sidecar or of the common controller over them writes nothing to the API
\* server and calls nothing on the driver; the objects stay steady, so the
\* same holds for every later pass.
C16_SteadyPassesWriteNothing ==
  [][\A name \in NfsExportNames :
       (Steady(name) /\ NextComplete)
         => /\ UNCHANGED <<contents, nfsexports, pvc, backend>>
            /\ evt'.op = ""
            /\ Steady(name)']_vars

\* A steady VolumeNfsExport under policy Delete, which has both finalizers.
C16_Witness ==
  /\ Steady("s1")
  /\ nfsexports["s1"].finBound
  /\ evt = NoEvt

\* The pass that ends in this step got an error from CreateNfsExport that
\* isCSIFinalError does not take as final.
TransientCreateError ==
  \E code \in DriverCodes, later, ok \in BOOLEAN :
    ~isCSIFinalError(code) /\ SidecarCreateFailed(code, later, ok)

StatusWritten(content) ==
  content.stSet /\ content.handle /\ content.ctime /\ content.size

C19_FinalIffOtherGRPCCode ==
  \A call \in DOMAIN er_log :
    er_log[call].verdict # "none"
      => /\ er_log[call].verdict = "final" <=>
              /\ er_log[call].err # "NotGRPC"
              /\ er_log[call].err \notin
                   {"Canceled", "DeadlineExceeded", "Unavailable",
                    "ResourceExhausted", "Aborted"}
         /\ er_log[call].err = "NotGRPC" => er_log[call].verdict = "not final"

\* An error without gRPC status and one with code Internal were classified.
C19_Witness ==
  /\ DOMAIN er_log = Calls
  /\ er_log["first"] = [err |-> "NotGRPC", verdict |-> "not final"]
  /\ er_log["second"] = [err |-> "Internal", verdict |-> "final"]

\* C20: at most one stored class per driver is the default class, whatever
\* requests the webhook admitted, also when it decided two of them on the
\* same listed classes.
C20_OneDefaultPerDriver ==
  \A a, b \in ClassNames :
    (/\ a # b
     /\ wh_classes[a].exists /\ wh_classes[a].default
     /\ wh_classes[b].exists /\ wh_classes[b].default)
      => wh_classes[a].driver # wh_classes[b].driver

\* C21: a VolumeNfsExport of a PVC without class name gets a class name only
\* when exactly one listed class is the default of the driver of the PVC's
\* volume, and then that one; with no such class or several the class name
\* stays unset and the error is written to the status (unless the API server
\* refuses the status write).
C21_DefaultClassOnlyWhenUnique ==
  [][(CheckClass /\ dc_pass.className = "" /\ dc_pass.cached.source = "claim")
       => LET found == defaultClasses(wh_classes, dc_pass.driver)
          IN  /\ dc_pass'.className # ""
                   => Cardinality(found) = 1 /\ dc_pass'.className \in found
              /\ Cardinality(found) # 1
                   => /\ dc_pass'.className = ""
                      /\ \/ dc_pass'.refused
                         \/ /\ dc_pass'.stored.stSet
                            /\ dc_pass'.stored.error =
                                 "SetDefaultNfsExportClassFailed"]_vars

\* Two default classes of the driver were listed and the error was recorded.
C21_Witness ==
  /\ dc_pass.pc = "done"
  /\ Cardinality(defaultClasses(wh_classes, dc_pass.driver)) > 1
  /\ dc_pass.className = ""
  /\ dc_pass.stored.stSet
  /\ dc_pass.stored.error = "SetDefaultNfsExportClassFailed"

\* C22: no two workers of a controller reconcile the same key at the same
\* time, and a key added again while it is reconciled is not handed to a
\* worker before that reconciliation is done.
C22_OneReconciliationPerKey ==
  /\ \A w1, w2 \in Workers : w1 # w2 /\ wk[w1] # "" => wk[w1] # wk[w2]
  /\ \A w \in Workers, i \in 1..Len(wq.queue) : wk[w] # wq.queue[i]

\* A key was added again while a worker reconciles it, and the other worker
\* is free.
C22_Witness ==
  \E w1, w2 \in Workers :
    /\ wk[w1] # ""
    /\ wk[w1] \in wq.dirty
    /\ wk[w2] = ""

\* The content the deletion path of the VolumeNfsExport finds in the cache:
\* it exists there and refers back to the VolumeNfsExport.
DeletionPathContentFound(name) ==
  LET held == nfsexports[name]
      c == IF IsBoundVolumeNfsExportContentNameSet(held) THEN held.bound
           ELSE SourceContentName(held)
  IN  /\ held.exists
      /\ IsBoundVolumeNfsExportContentNameSet(held) \/ held.source = "claim"
      /\ cc_contents[c].exists
      /\ IsVolumeNfsExportRefSet(name, held, cc_contents[c])

OwnerBeingDeleted(c) ==
  LET cv == cc_contents[c]
  IN  /\ cv.exists /\ contents[c].exists
      /\ cv.refName \in NfsExportNames
      /\ nfsexports[cv.refName].exists
      /\ nfsexports[cv.refName].uid = cv.refUID
      /\ nfsexports[cv.refName].delTs

\* C24: a content sync of the common controller, whose writes the API server
\* accepts, of a content that needs no finalizer added and whose
\* VolumeNfsExport (same UID) has a deletion timestamp leaves being-deleted
\* set on the stored content.
C24_SyncContentSetsBeingDeleted ==
  \A c \in ContentNames :
    (OwnerBeingDeleted(c) /\ ~NeedToAddContentFinalizer(cc_contents[c]))
      => syncContent(c, TRUE).st.annDeleted

\* The cached content lacks the finalizer and has no deletion timestamp, and
\* the content is stored.
LacksContentFinalizer(c) ==
  /\ cc_contents[c].exists /\ contents[c].exists
  /\ ~cc_contents[c].fin /\ ~cc_contents[c].delTs

\* C25 as stated: a content sync of the common controller, whose writes the
\* API server accepts, leaves the finalizer on every content that lacked it
\* and has no deletion timestamp, bound or not.
C25_SyncContentAddsFinalizer ==
  \A c \in ContentNames :
    LacksContentFinalizer(c) => syncContent(c, TRUE).st.fin

\* C25, amended: a content sync of the common controller, whose writes the
\* API server accepts, leaves the finalizer on every content that lacked it,
\* has no deletion timestamp and carries the UID of its VolumeNfsExport.
C25_SyncContentAddsFinalizerToBound ==
  \A c \in ContentNames :
    (LacksContentFinalizer(c) /\ cc_contents[c].refUID # "")
      => syncContent(c, TRUE).st.fin

\* A content an administrator made is bound, not being deleted and carries
\* the finalizer, and the common controller has seen it.
C25_Witness ==
  \E c \in ContentNames :
    /\ contents[c].exists /\ contents[c].source = "export"
    /\ contents[c].refUID # ""
    /\ contents[c].fin /\ ~contents[c].delTs
    /\ cc_contents[c] = contents[c]

C27_AdapterReturnsDriverAnswer ==
  nx.pc = "returned"
    => /\ nx.ret.err = (nx.rsp.code # "OK")
       /\ nx.rsp.code = "OK"
            => /\ nx.ret.nfsexportId = nx.rsp.id
               /\ nx.ret.size = nx.rsp.size
               /\ nx.ret.readyToUse = nx.rsp.ready

\* C28: no step of a reconcile pass panics, whatever the UID, the configured
\* length, the data source of a PVC or the error in the status of a content.
C28_NoStepPanics == rc_step.outcome # "panic"

\* ---------------------------------------------------------------------
\* The controllers' stores: updates by resource version
\* ---------------------------------------------------------------------

\* strconv.ParseInt(s, 10, 64) of a string of characters without sign: the
\* number the decimal digits denote, an error for no character or for a
\* character that is not a digit.
ParseInt(s) ==
  LET ds == <<"0", "1", "2", "3", "4", "5", "6", "7", "8", "9">>
      digit(ch) == CHOOSE d \in 0..9 : ds[d + 1] = ch
      isDigit(ch) == \E d \in 0..9 : ds[d + 1] = ch
      val[i \in 0..Len(s)] ==
        IF i = 0 THEN 0 ELSE val[i - 1] * 10 + digit(s[i])
  IN  IF Len(s) = 0 \/ \E i \in 1..Len(s) : ~isDigit(s[i])
        THEN [err |-> TRUE, n |-> 0]
        ELSE [err |-> FALSE, n |-> val[Len(s)]]

\* StoreObjectUpdate as it would be if it threw away the same version too.
StoreObjectUpdateNewerOnly(oldObj, rv) ==
  LET obj == [found |-> TRUE, rv |-> rv]
      new == ParseInt(rv)
      old == ParseInt(oldObj.rv)
  IN  IF ~oldObj.found THEN [updated |-> TRUE, err |-> FALSE, obj |-> obj]
      ELSE IF new.err \/ old.err
        THEN [updated |-> FALSE, err |-> TRUE, obj |-> oldObj]
      ELSE IF old.n >= new.n
        THEN [updated |-> FALSE, err |-> FALSE, obj |-> oldObj]
      ELSE [updated |-> TRUE, err |-> FALSE, obj |-> obj]

\* StoreObjectUpdate on the object oldObj the store holds under the key and
\* an object of resource version rv: whether the store was updated, whether
\* an error is returned, and the object the store holds afterwards.
StoreObjectUpdate(oldObj, rv) ==
  LET obj == [found |-> TRUE, rv |-> rv]
      new == ParseInt(rv)
      old == ParseInt(oldObj.rv)
  IN  IF ~oldObj.found THEN [updated |-> TRUE, err |-> FALSE, obj |-> obj]
      ELSE IF new.err \/ old.err
        THEN [updated |-> FALSE, err |-> TRUE, obj |-> oldObj]
      ELSE IF old.n > new.n
        THEN [updated |-> FALSE, err |-> FALSE, obj |-> oldObj]
      ELSE [updated |-> TRUE, err |-> FALSE, obj |-> obj]

\* updateNfsExport (and updateContentInInformerCache of the sidecar) for an
\* event with an object of any key and any resource version: the error of
\* the store is logged, and the object is synced iff the store took it.
updateNfsExport ==
  \E k \in {"s1", "s2"},
     rv \in {<<>>, <<"x">>, <<"7">>, <<"0", "7">>, <<"9">>, <<"1", "0">>} :
    LET res == StoreObjectUpdate(oc.store[k], rv)
    IN  /\ oc' = [store |-> [oc.store EXCEPT ![k] = res.obj],
                  key |-> k, rv |-> rv, old |-> oc.store[k],
                  updated |-> res.updated, err |-> res.err,
                  synced |-> res.updated]
        /\ UNCHANGED <<wh_classes, wh_lister, er_log, dc_pass, wq, wk,
                       restoring, ar, nx, rc_step,
                       ue,
                       mm>>
        /\ ControllersFrame

InitStore ==
  /\ ControllersInit
  /\ wh_classes = NoClasses
  /\ wh_lister = NoClasses
  /\ er_log = <<>>
  /\ dc_pass = NoPass
  /\ wq = NoQueue
  /\ wk = NoWorkers
  /\ restoring = {}
  /\ ar = NoReview
  /\ nx = NoAdapterCall
  /\ rc_step = NoStep
  /\ oc = NoStore
  /\ ue = NoUpdate
  /\ mm = NoMetrics

SpecStore == InitStore /\ [][updateNfsExport]_vars

\* C29: a write of one of the two annotations never removes the other one:
\* a step that puts being-deleted on a stored content leaves being-created
\* as it was in the store, a step that puts being-created on it leaves
\* being-deleted as it was, and no step takes being-deleted away.
C29_NoLostAnnotation ==
  [][\A c \in ContentNames :
       (contents[c].exists /\ contents'[c].exists)
         => /\ (~contents[c].annDeleted /\ contents'[c].annDeleted)
                 => contents'[c].annCreated = contents[c].annCreated
            /\ (~contents[c].annCreated /\ contents'[c].annCreated)
                 => contents'[c].annDeleted = contents[c].annDeleted
            /\ contents[c].annDeleted => contents'[c].annDeleted]_vars

\* C30: the store never replaces an object by one of a strictly lower
\* resource version, compared as numbers: an event whose object is strictly
\* older than the stored one leaves the store as it was, an event whose
\* object is as old or newer puts its object into the store, and an event
\* whose object the store did not take is not synced.
C30_StoreKeepsNewest ==
  oc.key # "" =>
    LET new == ParseInt(oc.rv)
        old == ParseInt(oc.old.rv)
    IN  /\ (oc.old.found /\ ~new.err /\ ~old.err /\ new.n < old.n)
              => /\ ~oc.updated
                 /\ oc.store[oc.key] = oc.old
        /\ (oc.old.found /\ ~new.err /\ ~old.err /\ new.n >= old.n)
              => /\ oc.updated
                 /\ oc.store[oc.key] = [found |-> TRUE, rv |-> oc.rv]
        /\ (oc.old.found /\ oc.store[oc.key] # oc.old)
              => ~new.err /\ ~old.err /\ new.n >= old.n
        /\ ~oc.updated => ~oc.synced

\* An event with version 9 for an object the store holds at version 10 was
\* thrown away and not synced, and the store still holds version 10.
C30_Witness ==
  /\ oc.key = "s1"
  /\ oc.old = [found |-> TRUE, rv |-> <<"1", "0">>]
  /\ oc.rv = <<"9">>
  /\ ~oc.updated /\ ~oc.synced
  /\ oc.store["s1"].rv = <<"1", "0">>

\* C31: a pass over a VolumeNfsExport in which a step failed returns an
\* error to its worker, which adds the key again with AddRateLimited: no
\* failure inside a pass is dropped without a retry.
C31_FailedPassIsRetried ==
  \A name \in NfsExportNames, fail \in Writes :
    (nfsexports[name].exists /\ ~nfsexports[name].delTs)
      => (syncNfsExport(name, fail).pvcErr => syncNfsExport(name, fail).err)

\* C32: on an update event of a content the sidecar skips the enqueue
\* exactly when the new object has status.error and being-created was on the
\* old object and is not on the new one; every other update adds the key.
C32_SkipOnlyAfterFailedCreate ==
  ue.key # "" =>
    (ue.enqueued <=> ~(ue.status = "error" /\ ue.oldAnn /\ ~ue.newAnn))

\* An update whose new object has status.error and no being-created, as the
\* old one had none either, added the key to the queue.
C32_Witness ==
  /\ ue.key # ""
  /\ ue.status = "error" /\ ~ue.oldAnn /\ ~ue.newAnn
  /\ ue.enqueued
  /\ ue.key \in wq.dirty

\* C33 as claimed: the sidecar processes a content only if its driver is the
\* configured one and the class it names is known to be of that driver.
C33_ProcessedOnlyIfClassConfirmed ==
  (rc_step.fn = "syncContentByKey" /\ rc_step.outcome = "processed")
    => /\ rc_step.content.driver = "d1"
       /\ rc_step.content.className # ""
            => /\ rc_step.classes[rc_step.content.className].exists
               /\ rc_step.classes[rc_step.content.className].driver = "d1"

\* C33: the sidecar processes a content only if its driver is the configured
\* one and the class it names, when the lister has that class, is of that
\* driver; a content whose class the lister does not have is processed
\* iff it has a source and its driver is the configured one.
C33_ProcessedOnlyIfListedClassMatches ==
  rc_step.fn = "syncContentByKey" =>
    /\ rc_step.outcome = "processed"
         => /\ rc_step.content.driver = "d1"
            /\ (/\ rc_step.content.className # ""
                /\ rc_step.classes[rc_step.content.className].exists)
                 => rc_step.classes[rc_step.content.className].driver = "d1"
    /\ (/\ rc_step.outcome # "none"
        /\ rc_step.content.className # ""
        /\ ~rc_step.classes[rc_step.content.className].exists)
         => (rc_step.outcome = "processed"
               <=> /\ rc_step.content.driver = "d1"
                   /\ \/ rc_step.content.volumeHandle
                      \/ rc_step.content.sourceHandle)

\* A content of driver d1 with a volume handle that names class k1, which the
\* lister does not have, was processed.
C33_Witness ==
  /\ rc_step.fn = "syncContentByKey"
  /\ rc_step.content.driver = "d1"
  /\ rc_step.content.volumeHandle
  /\ rc_step.content.className = "k1"
  /\ ~rc_step.classes["k1"].exists
  /\ rc_step.outcome = "processed"

\* C34: the merge of an answer of the driver into the status of a content
\* keeps a handle, a creation time and a size that are set and fills the
\* ones that are not; readyToUse changes iff the driver answered another
\* value; status.error is cleared iff readyToUse changes to true, and stays
\* as it was otherwise; UpdateStatus is called iff the status changed.
C34_MergeFillsUnsetFields ==
  (rc_step.fn = "updateNfsExportContentStatus" /\ rc_step.outcome # "none")
    => LET old   == rc_step.old
           new   == rc_step.new
           ready == IF rc_step.readyToUse THEN "true" ELSE "false"
       IN  /\ new.handle = IF old.handle = "nil" THEN "h2" ELSE old.handle
           /\ new.ctime = IF old.ctime = "nil" THEN "t2" ELSE old.ctime
           /\ new.size = IF old.size = "nil" THEN "z2" ELSE old.size
           /\ new.ready = ready
           /\ new.error = IF old.ready # "true" /\ new.ready = "true"
                            THEN "nil" ELSE old.error
           /\ rc_step.wrote <=> new # old

\* An answer of the driver was merged into a status that had a handle and an
\* error and was not ready: the handle stayed, the creation time was filled
\* in, readyToUse became true and the error was cleared.
C34_Witness ==
  /\ rc_step.fn = "updateNfsExportContentStatus"
  /\ rc_step.old.handle = "h1" /\ rc_step.old.ctime = "nil"
  /\ rc_step.old.ready = "false" /\ rc_step.old.error = "e"
  /\ rc_step.new.handle = "h1" /\ rc_step.new.ctime = "t2"
  /\ rc_step.new.ready = "true" /\ rc_step.new.error = "nil"
  /\ rc_step.wrote

\* C35: the handler returns an error and sends no call to the driver when
\* it is asked to create for a content whose nfsexport has no UID or that
\* has no volume handle, and when it is asked to delete or to get the status
\* for a content with neither status.nfsexportHandle nor
\* spec.source.nfsexportHandle.
C35_HandlerRejectsWithoutCall ==
  rc_step.outcome # "none" =>
    /\ (/\ rc_step.fn = "CreateNfsExport"
        /\ Len(rc_step.uid) = 0 \/ ~rc_step.content.volumeHandle)
         => rc_step.outcome = "error" /\ rc_step.rpc = ""
    /\ (/\ rc_step.fn \in {"DeleteNfsExport", "GetNfsExportStatus"}
        /\ ~rc_step.content.statusHandle
        /\ ~rc_step.content.sourceHandle)
         => rc_step.outcome = "error" /\ rc_step.rpc = ""

\* The handler was asked to create for a content that has a UID and no
\* volume handle, and returned an error without a call.
C35_Witness ==
  /\ rc_step.fn = "CreateNfsExport"
  /\ Len(rc_step.uid) > 0
  /\ ~rc_step.content.volumeHandle
  /\ rc_step.outcome = "error" /\ rc_step.rpc = ""

\* The VolumeNfsExport content c refers to is not in the store, or is there
\* with another UID.
Orphan(c) ==
  /\ contents[c].exists
  /\ ~(/\ nfsexports[contents[c].refName].exists
       /\ nfsexports[contents[c].refName].uid = contents[c].refUID)

\* C36: no step puts being-deleted on a content whose VolumeNfsExport is
\* absent or has another UID, and no step deletes such a content once it was
\* bound.
C36_OrphanContentLeftAlone ==
  [][\A c \in ContentNames :
       Orphan(c)
         => /\ ~contents[c].annDeleted => ~contents'[c].annDeleted
            /\ (contents[c].refUID # "" /\ ~contents[c].delTs)
                 => (contents'[c].exists /\ ~contents'[c].delTs)]_vars

\* The content of the first s1 started without its finalizer and the common
\* controller has synced it; the s1 created again, with another UID, is
\* being deleted and waits for its finalizers; the content has neither
\* being-deleted nor a deletion timestamp.
C36_Witness ==
  \E c \in ContentNames :
    /\ Orphan(c)
    /\ contents[c].refUID = "u1"
    /\ nfsexports["s1"].exists /\ nfsexports["s1"].uid = "u9"
    /\ IsNfsExportDeletionCandidate(nfsexports["s1"])
    /\ contents[c].fin /\ cc_contents[c] = contents[c]
    /\ ~contents[c].annDeleted /\ ~contents[c].delTs

\* C37: once syncNfsExportByKey has looked up the class of a VolumeNfsExport
\* that has a deletion timestamp, it has gone on to updateNfsExport, and so to
\* the deletion path, whether the class was resolved or not.
C37_DeletionPathDespiteClassFailure ==
  (dc_pass.pc = "done" /\ dc_pass.cached.delTs) => dc_pass.synced

\* C40: a pass whose Update of the default class name failed returns an
\* error, does not go on to updateNfsExport and has not handed what Update
\* returned to the store of the controller.
C40_FailedClassUpdateEndsThePass ==
  (dc_pass.pc = "done" /\ dc_pass.updateFailed)
    => /\ dc_pass.err # ""
       /\ ~dc_pass.synced
       /\ ~dc_pass.storeUpdated

\* C39: for a VolumeNfsExport, the success of CreateNfsExport and the success
\* of CreateNfsExportAndReady are each observed at most once, whether the
\* status writes of its passes are accepted or refused.
C39_SuccessObservedOnce ==
  \A op \in DOMAIN mm.observed : mm.observed[op] <= 1

\* C38: a VolumeNfsExport that is being deleted and is bound to a content
\* with deletion policy Delete leads to a state where neither the
\* VolumeNfsExport nor the content is stored any more.
C38_DeletionCompletes ==
  (/\ nfsexports["s1"].exists /\ nfsexports["s1"].delTs
   /\ contents["snapcontent-u1"].exists
   /\ contents["snapcontent-u1"].policy = "Delete"
   /\ contents["snapcontent-u1"].refUID = nfsexports["s1"].uid)
    ~> (~nfsexports["s1"].exists /\ ~contents["snapcontent-u1"].exists)

====
